---- MODULE Spec2Model ----
(***************************************************************************)
(* Salesforce contract assistant (server.py): the fetch / transform /      *)
(* filter / sort pipeline of _get_processed_data, the account filter and   *)
(* the tool entry points that read the Normalized Dataset.                 *)
(*                                                                         *)
(* Values.  A string is a sequence of character codes, so that strip(),    *)
(* lower() and the code-point order of the sort are computed, not assumed. *)
(* A measurement is an integer number of tenths (Scale), so that 2.7 and   *)
(* its truncation by astype(int) are both representable.  pandas' missing  *)
(* values (None, NaN, NaT) are tagged records.                             *)
(***************************************************************************)
EXTENDS Integers, Sequences, FiniteSets, TLC

VARIABLES
    now,        \* datetime.now().year, the calendar year of the call
    source,     \* the Record Source: how a round-trip ends, and its records
    pc,         \* "idle": no call in progress; "done": a call has returned
    call,       \* the tool invoked and its arguments
    requests,   \* the requests the call issued to the Record Source, in order
    dataset,    \* the DataFrame df the call got from _get_processed_data
    result,     \* the structure the call returned to the Tool Invocation Layer
    invocations,\* calls in progress at the same time: position, arguments, result
    frames      \* the DataFrames (df, df_filtered, its Season column) of these calls

vars == <<now, source, pc, call, requests, dataset, result, invocations, frames>>

----------------------------------------------------------------------------
(* Bounds of the model *)

MaxRecords == 2          \* records in one Record Source response
BaseOrders == 11         \* orders of the long history of one account
FirstYear == 2026        \* the calendar year the calls run in
Scale == 10              \* a measurement is counted in 1/Scale units

(* Program constants *)

MinYear == 2015          \* lower bound of the year filter

----------------------------------------------------------------------------
(* Strings *)

\* the whitespace str.strip() removes: tab, line feed, carriage return, space
IsSpace(c) == c \in {9, 10, 13, 32}

\* str.lower() on the ASCII letters
LowerChar(c) == IF c >= 65 /\ c <= 90 THEN c + 32 ELSE c

Lower(s) == [i \in 1..Len(s) |-> LowerChar(s[i])]

RECURSIVE LStrip(_)
LStrip(s) == IF s # <<>> /\ IsSpace(Head(s)) THEN LStrip(Tail(s)) ELSE s

RECURSIVE RStrip(_)
RStrip(s) ==
    IF s # <<>> /\ IsSpace(s[Len(s)]) THEN RStrip(SubSeq(s, 1, Len(s) - 1)) ELSE s

\* str.strip()
Strip(s) == RStrip(LStrip(s))

\* Python's < on str: lexicographic on code points
StrLess(a, b) ==
    \E i \in 1..(Len(b)) :
        /\ i <= Len(a) + 1
        /\ \A j \in 1..(i - 1) : a[j] = b[j]
        /\ \/ i = Len(a) + 1
           \/ a[i] < b[i]

----------------------------------------------------------------------------
(* Raw and coerced values *)

\* string fields of a raw record: a str, None, or the key absent
Str(s) == [kind |-> "str", s |-> s]
None == [kind |-> "none", s |-> <<>>]
AbsentStr == [kind |-> "absent", s |-> <<>>]

\* numeric fields of a raw record
RawNum(v) == [kind |-> "num", v |-> v]         \* a finite number, in tenths
RawNone == [kind |-> "none", v |-> 0]          \* JSON null
RawAbsent == [kind |-> "absent", v |-> 0]      \* the key is missing
RawText == [kind |-> "text", v |-> 0]          \* a string that is no number
RawInf == [kind |-> "inf", v |-> 0]            \* "inf" / 1e999: parses to float inf

\* float64 values of the DataFrame
Num(v) == [kind |-> "num", v |-> v]
NaN == [kind |-> "nan", v |-> 0]
Inf == [kind |-> "inf", v |-> 0]

\* the created date of a raw record
RawStamp(y, m) == [kind |-> "stamp", year |-> y, month |-> m]
RawDateNone == [kind |-> "none", year |-> 0, month |-> 0]
RawDateAbsent == [kind |-> "absent", year |-> 0, month |-> 0]
RawDateText == [kind |-> "text", year |-> 0, month |-> 0]

\* datetime64 values of the DataFrame
Stamp(y, m) == [kind |-> "ts", year |-> y, month |-> m]
NaT == [kind |-> "nat", year |-> 0, month |-> 0]

\* pd.isna / pd.notna on a string column
IsNa(x) == x.kind \in {"none", "absent", "nan", "nat"}

----------------------------------------------------------------------------
(* _get_processed_data: fetch *)

Raise(exc, reqs) == [kind |-> "raise", exc |-> exc, rows |-> <<>>, requests |-> reqs]
Ok(rows, reqs) == [kind |-> "ok", exc |-> "", rows |-> rows, requests |-> reqs]

\* get_salesforce_client: the credentials are read from the environment and
\* checked before the login request is sent
get_salesforce_client(src) ==
    IF src.mode = "no_credentials" THEN Raise("ValueError", <<>>)
    ELSE IF src.mode = "auth_error"
         THEN Raise("SalesforceAuthenticationFailed", <<"login">>)
         ELSE Ok(<<>>, <<"login">>)

\* a query that swallows its errors and hands back no records
QueryAllSwallow(src, reqs) ==
    IF src.mode = "ok" THEN Ok(src.records, Append(reqs, "query"))
    ELSE Ok(<<>>, Append(reqs, "query"))

\* sf.query_all(soql) and query_result.get('records', [])
QueryAll(src, reqs) ==
    CASE src.mode = "network_error" -> Raise("ConnectionError", Append(reqs, "query"))
      [] src.mode = "not_a_mapping" -> Raise("AttributeError", Append(reqs, "query"))
      [] src.mode = "no_records_key" -> Ok(<<>>, Append(reqs, "query"))
      [] OTHER -> Ok(src.records, Append(reqs, "query"))

----------------------------------------------------------------------------
(* _get_processed_data: transform *)

\* pd.to_numeric(..., errors='coerce')
ToNumeric(x) ==
    CASE x.kind = "num" -> Num(x.v)
      [] x.kind = "inf" -> Inf
      [] OTHER -> NaN

\* pd.to_datetime(..., errors='coerce')
ToDatetime(d) == IF d.kind = "stamp" THEN Stamp(d.year, d.month) ELSE NaT

\* .dt.year, .dt.month, .dt.quarter: NaN on NaT
DtYear(ts) == IF ts.kind = "ts" THEN Num(ts.year) ELSE NaN
DtMonth(ts) == IF ts.kind = "ts" THEN Num(ts.month) ELSE NaN
DtQuarter(ts) == IF ts.kind = "ts" THEN Num(((ts.month - 1) \div 3) + 1) ELSE NaN

\* the .dt accessor exists only on a datetime column: when no record carries
\* the created-date key, df.get() is None, the column holds None objects and
\* .dt raises AttributeError
HasDatetimeColumn(records) ==
    \E i \in 1..Len(records) : records[i].Created_Date.kind # "absent"

\* .fillna(0)
FillNa(x) == IF x.kind = "nan" THEN Num(0) ELSE x

\* a cast that rounds down instead of toward zero
AsTypeIntFloor(x) == x.v \div Scale

\* .astype(int) on one finite float: truncation toward zero
AsTypeInt(x) == IF x.v >= 0 THEN x.v \div Scale ELSE -((-x.v) \div Scale)

\* df_export['Quantity'].fillna(0).astype(int), one value
QuantityOf(raw) == AsTypeInt(FillNa(ToNumeric(raw)))

\* .astype(int) raises IntCastingNaNError when the column holds a non-finite
\* value after fillna
QuantityCastable(records) ==
    \A i \in 1..Len(records) : FillNa(ToNumeric(records[i].Quantity)).kind = "num"

\* one row of df_export, before the filter; id is the row's index label
CanonicalRow(r, i) ==
    LET ts == ToDatetime(r.Created_Date) IN
    [ id |-> i,
      account_code |-> r.Account_Code,
      sku |-> r.StockKeepingUnit,
      family |-> r.Family,
      color |-> r.STONE_Color_Type,
      segment |-> r.Segment,
      YEAR |-> DtYear(ts),
      MONTH |-> DtMonth(ts),
      QUARTER |-> DtQuarter(ts),
      Length |-> ToNumeric(r.Length),
      Width |-> ToNumeric(r.Width),
      Height |-> ToNumeric(r.Height),
      Quantity |-> QuantityOf(r.Quantity),
      Total_Price |-> ToNumeric(r.Total_Price_USD),
      Created_Date |-> ts ]

Transform(records) == [i \in 1..Len(records) |-> CanonicalRow(records[i], i)]

----------------------------------------------------------------------------
(* _get_processed_data: filter and sort *)

\* a year filter without its upper bound
YearAtLeast(row, current_year) ==
    /\ row.YEAR.kind = "num"
    /\ row.YEAR.v >= MinYear

\* (YEAR >= 2015) & (YEAR <= current_year): a comparison with NaN is False
YearInRange(row, current_year) ==
    /\ row.YEAR.kind = "num"
    /\ row.YEAR.v >= MinYear
    /\ row.YEAR.v <= current_year

\* the boolean-mask filter followed by dropna(subset=[account code])
KeepRow(row, current_year) ==
    /\ YearInRange(row, current_year)
    /\ ~IsNa(row.account_code)

FilterRows(rows, current_year) ==
    SelectSeq(rows, LAMBDA row : KeepRow(row, current_year))

\* the order with every key ascending
RowBeforeAscending(a, b) ==
    \/ StrLess(a.account_code.s, b.account_code.s)
    \/ /\ a.account_code.s = b.account_code.s
       /\ \/ a.YEAR.v < b.YEAR.v
          \/ /\ a.YEAR.v = b.YEAR.v
             /\ a.MONTH.v < b.MONTH.v

\* the order of sort_values(by=[account, YEAR, MONTH], ascending=[True, False, False])
RowBefore(a, b) ==
    \/ StrLess(a.account_code.s, b.account_code.s)
    \/ /\ a.account_code.s = b.account_code.s
       /\ \/ a.YEAR.v > b.YEAR.v
          \/ /\ a.YEAR.v = b.YEAR.v
             /\ a.MONTH.v > b.MONTH.v

\* r goes before the first row it strictly precedes: equal keys keep their order
RECURSIVE InsertRow(_, _)
InsertRow(sorted, r) ==
    IF sorted = <<>> THEN <<r>>
    ELSE IF RowBefore(r, Head(sorted)) THEN <<r>> \o sorted
         ELSE <<Head(sorted)>> \o InsertRow(Tail(sorted), r)

RECURSIVE SortFrom(_, _)
SortFrom(sorted, rows) ==
    IF rows = <<>> THEN sorted
    ELSE SortFrom(InsertRow(sorted, Head(rows)), Tail(rows))

SortRows(rows) == SortFrom(<<>>, rows)

\* _get_processed_data(): the whole helper
\* a pipeline that keeps its frame between runs and appends to it
ProcessedDataAppended(src, current_year) ==
    LET sf == get_salesforce_client(src) IN
    IF sf.kind = "raise" THEN sf
    ELSE LET q == QueryAll(src, sf.requests) IN
         IF q.kind = "raise" THEN q
         ELSE IF q.rows = <<>> THEN Ok(dataset.rows, q.requests)
         ELSE IF ~HasDatetimeColumn(q.rows)
              THEN Raise("AttributeError", q.requests)
         ELSE IF ~QuantityCastable(q.rows)
              THEN Raise("IntCastingNaNError", q.requests)
         ELSE Ok(dataset.rows \o SortRows(FilterRows(Transform(q.rows), current_year)),
                 q.requests)

_get_processed_data(src, current_year) ==
    LET sf == get_salesforce_client(src) IN
    IF sf.kind = "raise" THEN sf
    ELSE LET q == QueryAll(src, sf.requests) IN
         IF q.kind = "raise" THEN q
         ELSE IF q.rows = <<>> THEN Ok(<<>>, q.requests)
         ELSE IF ~HasDatetimeColumn(q.rows)
              THEN Raise("AttributeError", q.requests)
         ELSE IF ~QuantityCastable(q.rows)
              THEN Raise("IntCastingNaNError", q.requests)
         ELSE Ok(SortRows(FilterRows(Transform(q.rows), current_year)), q.requests)

\* a filter that trims but compares case-sensitively
FilterCaseSensitive(rows, account_code) ==
    IF rows = <<>> THEN rows
    ELSE LET account_code_clean == Strip(account_code.s) IN
         SelectSeq(rows, LAMBDA row : Strip(row.account_code.s) = account_code_clean)

\* _filter_by_account(df, account_code)
_filter_by_account(rows, account_code) ==
    IF rows = <<>> THEN rows
    ELSE LET account_code_clean == Lower(Strip(account_code.s)) IN
         SelectSeq(rows, LAMBDA row :
                     Lower(Strip(row.account_code.s)) = account_code_clean)

----------------------------------------------------------------------------
(* Results of an entry point *)

\* what a handler leaves behind: the structure it returned, the requests it
\* issued, and the DataFrame it held (df is None until _get_processed_data
\* has returned)
NoData == [built |-> FALSE, rows |-> <<>>]
Data(rows) == [built |-> TRUE, rows |-> rows]
Returned(res, reqs, df) == [result |-> res, requests |-> reqs, dataset |-> df]

\* the failure result of the validation
EmptyAccountError == [success |-> FALSE, error |-> <<"Account code cannot be empty">>]

\* a handler without its try/except: the exception reaches the caller
ExceptPropagates(prefix, exc) == [raised |-> exc]

\* except Exception as e: return {"success": False, "error": f"...: {str(e)}"}
Except(prefix, exc) == [success |-> FALSE, error |-> <<prefix, exc>>]

\* a validation that forgets strip(): `not account_code` alone
AccountBlankNoStrip(account_code) ==
    \/ account_code.kind = "none"
    \/ account_code.s = <<>>

\* not account_code or not account_code.strip()
AccountBlank(account_code) ==
    \/ account_code.kind = "none"
    \/ account_code.s = <<>>
    \/ Strip(account_code.s) = <<>>

\* Series.sum() of a float column skips NaN; of the int Quantity column it is exact
RECURSIVE SumQuantity(_)
SumQuantity(rows) ==
    IF rows = <<>> THEN 0 ELSE Head(rows).Quantity + SumQuantity(Tail(rows))

\* float(row[...]) if pd.notna(row[...]) else 0, and Series.sum() on finite values
PriceOrZero(row) == IF row.Total_Price.kind = "num" THEN row.Total_Price.v ELSE 0

RECURSIVE SumPrice(_)
SumPrice(rows) ==
    IF rows = <<>> THEN 0 ELSE PriceOrZero(Head(rows)) + SumPrice(Tail(rows))

\* the values as they come, a value once for every row that has it
AllValues(seq) == seq

\* Series.unique(): the distinct values in order of first appearance
RECURSIVE Unique(_)
Unique(seq) ==
    IF seq = <<>> THEN <<>>
    ELSE LET rest == Unique(SubSeq(seq, 1, Len(seq) - 1))
             last == seq[Len(seq)]
         IN IF \E i \in 1..Len(rest) : rest[i] = last THEN rest ELSE Append(rest, last)

----------------------------------------------------------------------------
(* Tools 11 and 12: get_all_contract_product_details, get_contract_details_by_account *)

\* df.replace({np.nan: None}).to_dict(orient='records'): NaN becomes None
NanToNone(x) == IF x.kind \in {"nan", "nat"} THEN [x EXCEPT !.kind = "none"] ELSE x

JsonRecord(row) ==
    [row EXCEPT !.YEAR = NanToNone(@), !.MONTH = NanToNone(@), !.QUARTER = NanToNone(@),
                !.Length = NanToNone(@), !.Width = NanToNone(@), !.Height = NanToNone(@),
                !.Total_Price = NanToNone(@)]

ToRecords(rows) == [i \in 1..Len(rows) |-> JsonRecord(rows[i])]

get_all_contract_product_details(src, current_year) ==
    LET df == _get_processed_data(src, current_year) IN
    IF df.kind = "raise"
    THEN Returned(Except("Error processing data: ", df.exc), df.requests, NoData)
    ELSE IF df.rows = <<>>
    THEN Returned([success |-> TRUE, count |-> 0, data |-> <<>>,
                   message |-> "No contract products found"],
                  df.requests, Data(df.rows))
    ELSE Returned([success |-> TRUE, count |-> Len(df.rows), data |-> ToRecords(df.rows)],
                  df.requests, Data(df.rows))

get_contract_details_by_account(account_code, src, current_year) ==
    IF AccountBlank(account_code) THEN Returned(EmptyAccountError, <<>>, NoData)
    ELSE
    LET df == _get_processed_data(src, current_year) IN
    IF df.kind = "raise"
    THEN Returned(Except("Error processing data for account: ", df.exc),
                  df.requests, NoData)
    ELSE IF df.rows = <<>>
    THEN Returned([success |-> TRUE, count |-> 0, data |-> <<>>,
                   message |-> "No data found (empty source) for account code"],
                  df.requests, Data(df.rows))
    ELSE
    LET filtered_df == _filter_by_account(df.rows, account_code) IN
    IF filtered_df = <<>>
    THEN Returned([success |-> TRUE, count |-> 0, data |-> <<>>,
                   message |-> "No data found for account code"],
                  df.requests, Data(df.rows))
    ELSE Returned([success |-> TRUE, count |-> Len(filtered_df),
                   data |-> ToRecords(filtered_df), account_code |-> account_code],
                  df.requests, Data(df.rows))

----------------------------------------------------------------------------
(* Tool 1: get_all_customers_list *)

\* sorted() on a list of str
RECURSIVE InsertStr(_, _)
InsertStr(sorted, x) ==
    IF sorted = <<>> THEN <<x>>
    ELSE IF StrLess(x, Head(sorted)) THEN <<x>> \o sorted
         ELSE <<Head(sorted)>> \o InsertStr(Tail(sorted), x)

RECURSIVE SortedStrs(_)
SortedStrs(seq) ==
    IF seq = <<>> THEN <<>>
    ELSE InsertStr(SortedStrs(SubSeq(seq, 1, Len(seq) - 1)), seq[Len(seq)])

get_all_customers_list(src, current_year) ==
    LET df == _get_processed_data(src, current_year) IN
    IF df.kind = "raise"
    THEN Returned(Except("Error getting customers list: ", df.exc), df.requests, NoData)
    ELSE IF df.rows = <<>>
    THEN Returned([success |-> TRUE, count |-> 0, customers |-> <<>>,
                   message |-> "No customers found"],
                  df.requests, Data(df.rows))
    ELSE
    LET codes == [i \in 1..Len(df.rows) |-> df.rows[i].account_code.s]
        customers == SortedStrs(Unique(codes))
    IN Returned([success |-> TRUE, count |-> Len(customers), customers |-> customers],
                df.requests, Data(df.rows))

----------------------------------------------------------------------------
(* Tool 2: get_customer_products *)

\* the optional year argument
NoYear == [kind |-> "none", v |-> 0]
Year(y) == [kind |-> "num", v |-> y]

\* `if year:` is true of an int other than 0
Truthy(year) == year.kind = "num" /\ year.v # 0

\* one entry of "products": row.get(...) hands the DataFrame's values on as they are
ProductEntry(row) ==
    [ id |-> row.id,
      product_sku |-> row.sku,
      product_family |-> row.family,
      stone_color_type |-> row.color,
      segment |-> row.segment,
      dimensions |-> [length |-> row.Length, width |-> row.Width, height |-> row.Height],
      quantity |-> row.Quantity,
      total_price_usd |-> row.Total_Price,
      year |-> row.YEAR,
      month |-> row.MONTH,
      quarter |-> row.QUARTER ]

\* Series.nunique(): the number of distinct non-null values
NUnique(rows, F(_)) ==
    Cardinality({F(rows[i]) : i \in {j \in 1..Len(rows) : ~IsNa(F(rows[j]))}})

get_customer_products(account_code, year, src, current_year) ==
    IF AccountBlank(account_code) THEN Returned(EmptyAccountError, <<>>, NoData)
    ELSE
    LET df == _get_processed_data(src, current_year) IN
    IF df.kind = "raise"
    THEN Returned(Except("Error getting customer products: ", df.exc),
                  df.requests, NoData)
    ELSE
    LET by_account == _filter_by_account(df.rows, account_code) IN
    IF by_account = <<>>
    THEN Returned([success |-> TRUE, count |-> 0, products |-> <<>>,
                   message |-> "No products found for account"],
                  df.requests, Data(df.rows))
    ELSE
    LET df_filtered == IF Truthy(year)
                       THEN SelectSeq(by_account, LAMBDA row : row.YEAR.v = year.v)
                       ELSE by_account
    IN
    IF df_filtered = <<>>
    THEN Returned([success |-> TRUE, count |-> 0, products |-> <<>>,
                   message |-> "No products found for account in year"],
                  df.requests, Data(df.rows))
    ELSE
    Returned([success |-> TRUE,
              account_code |-> account_code,
              year |-> year,
              count |-> Len(df_filtered),
              summary |-> [unique_product_skus |-> NUnique(df_filtered, LAMBDA r : r.sku),
                           unique_product_families |->
                               NUnique(df_filtered, LAMBDA r : r.family),
                           total_quantity |-> SumQuantity(df_filtered),
                           total_value_usd |-> SumPrice(df_filtered)],
              products |-> [i \in 1..Len(df_filtered) |-> ProductEntry(df_filtered[i])]],
             df.requests, Data(df.rows))

----------------------------------------------------------------------------
(* Tool 3: get_customer_purchase_history *)

\* float(x) if pd.notna(x) else None
FloatOrNone(x) == IF IsNa(x) THEN [x EXCEPT !.kind = "none"] ELSE x

OrderData(row) ==
    [ id |-> row.id,
      product_sku |-> row.sku,
      product_family |-> row.family,
      stone_color |-> row.color,
      segment |-> row.segment,
      dimensions |-> [length |-> FloatOrNone(row.Length),
                      width |-> FloatOrNone(row.Width),
                      height |-> FloatOrNone(row.Height)],
      quantity |-> row.Quantity,
      total_price_usd |-> FloatOrNone(row.Total_Price) ]

\* a month node that counts its orders as the nodes above it do
MonthDefaultCounted ==
    [orders |-> <<>>, total_orders |-> 0, total_quantity |-> 0, total_value_usd |-> 0]

\* the defaultdict factories
MonthDefault == [orders |-> <<>>, total_quantity |-> 0, total_value_usd |-> 0]
QuarterDefault ==
    [total_orders |-> 0, total_quantity |-> 0, total_value_usd |-> 0, months |-> <<>>]
YearDefault ==
    [total_orders |-> 0, total_quantity |-> 0, total_value_usd |-> 0, quarters |-> <<>>]

\* d[k] on a defaultdict, and d[k] = v
GetOrDefault(d, k, default) == IF k \in DOMAIN d THEN d[k] ELSE default
Put(d, k, v) == [x \in (DOMAIN d) \cup {k} |-> IF x = k THEN v ELSE d[x]]

\* a pass that files the order under its quarter and month and leaves the
\* totals of the year as they were
AddOrderBelowYear(history, row) ==
    LET year == row.YEAR.v
        quarter == row.QUARTER.v
        month == row.MONTH.v
        ynode == GetOrDefault(history, year, YearDefault)
        qnode == GetOrDefault(ynode.quarters, quarter, QuarterDefault)
        mnode == GetOrDefault(qnode.months, month, MonthDefault)
        mnode2 == [mnode EXCEPT !.orders = Append(@, OrderData(row)),
                                !.total_quantity = @ + row.Quantity,
                                !.total_value_usd = @ + PriceOrZero(row)]
        qnode2 == [total_orders |-> qnode.total_orders + 1,
                   total_quantity |-> qnode.total_quantity + row.Quantity,
                   total_value_usd |-> qnode.total_value_usd + PriceOrZero(row),
                   months |-> Put(qnode.months, month, mnode2)]
    IN Put(history, year, [ynode EXCEPT !.quarters = Put(ynode.quarters, quarter, qnode2)])

\* one pass of the loop over df_filtered.iterrows()
AddOrder(history, row) ==
    LET year == row.YEAR.v
        quarter == row.QUARTER.v
        month == row.MONTH.v
        ynode == GetOrDefault(history, year, YearDefault)
        qnode == GetOrDefault(ynode.quarters, quarter, QuarterDefault)
        mnode == GetOrDefault(qnode.months, month, MonthDefault)
        mnode2 == [mnode EXCEPT !.orders = Append(@, OrderData(row)),
                                !.total_quantity = @ + row.Quantity,
                                !.total_value_usd = @ + PriceOrZero(row)]
        qnode2 == [total_orders |-> qnode.total_orders + 1,
                   total_quantity |-> qnode.total_quantity + row.Quantity,
                   total_value_usd |-> qnode.total_value_usd + PriceOrZero(row),
                   months |-> Put(qnode.months, month, mnode2)]
        ynode2 == [total_orders |-> ynode.total_orders + 1,
                   total_quantity |-> ynode.total_quantity + row.Quantity,
                   total_value_usd |-> ynode.total_value_usd + PriceOrZero(row),
                   quarters |-> Put(ynode.quarters, quarter, qnode2)]
    IN Put(history, year, ynode2)

RECURSIVE HistoryByYear(_, _)
HistoryByYear(history, rows) ==
    IF rows = <<>> THEN history
    ELSE HistoryByYear(AddOrder(history, Head(rows)), Tail(rows))

\* a window that leaves out its first year
InWindowAfter(row, start_year) == row.YEAR.v > start_year

\* df_filtered['YEAR'] >= start_year
InWindow(row, start_year) == row.YEAR.v >= start_year

get_customer_purchase_history(account_code, years_back, src, current_year) ==
    IF AccountBlank(account_code) THEN Returned(EmptyAccountError, <<>>, NoData)
    ELSE
    LET df == _get_processed_data(src, current_year) IN
    IF df.kind = "raise"
    THEN Returned(Except("Error getting purchase history: ", df.exc),
                  df.requests, NoData)
    ELSE
    LET by_account == _filter_by_account(df.rows, account_code) IN
    IF by_account = <<>>
    THEN Returned([success |-> TRUE, data |-> <<>>,
                   message |-> "No purchase history found for account"],
                  df.requests, Data(df.rows))
    ELSE
    LET start_year == current_year - years_back
        df_filtered == SelectSeq(by_account, LAMBDA row : InWindow(row, start_year))
    IN Returned([success |-> TRUE,
                 account_code |-> account_code,
                 years_analyzed |-> years_back,
                 period |-> <<start_year, current_year>>,
                 data |-> HistoryByYear(<<>>, df_filtered)],
                df.requests, Data(df.rows))

----------------------------------------------------------------------------
(* Numbers of the analyses.  A float that a handler computes by a division  *)
(* is kept as the exact quotient n/d; round(x, 2) gives an integer number   *)
(* of hundredths.                                                           *)

\* a float quotient, and the NaN that Series.mean() gives when nothing is left
\* after the nulls are skipped
Float(n, d) == [kind |-> "num", n |-> n, d |-> d]
FloatNaN == [kind |-> "nan", n |-> 0, d |-> 1]

\* n/d rounded to the nearest integer, halves to the even one (d > 0)
RoundDiv(n, d) ==
    LET a == IF n >= 0 THEN n ELSE -n
        q == a \div d
        r == a % d
        m == IF 2 * r < d THEN q
             ELSE IF 2 * r > d THEN q + 1
             ELSE IF q % 2 = 0 THEN q ELSE q + 1
    IN IF n >= 0 THEN m ELSE -m

\* round(x, 2) of an amount counted in 1/Scale units, divided by den: hundredths
Round2(v, den) == RoundDiv(v * 100, Scale * den)

\* a percentage computed from the row count of the whole dataset
PercentageOfDataset(count, df_filtered, df) == RoundDiv(count * 10000, Len(df))

\* round((count / total_orders) * 100, 2) with total_orders = len(df_filtered):
\* hundredths of a percent
PercentageOfOrders(count, df_filtered, df) == RoundDiv(count * 10000, Len(df_filtered))

\* Series.mean() of the Quantity column of a non-empty frame
MeanQuantity(rows) == Float(SumQuantity(rows), Len(rows))

\* Series.mean() of the Total Price column: the nulls are skipped, and the mean
\* of no value at all is NaN
MeanPrice(rows) ==
    LET priced == SelectSeq(rows, LAMBDA row : row.Total_Price.kind = "num")
    IN IF priced = <<>> THEN FloatNaN ELSE Float(SumPrice(priced), Len(priced))

----------------------------------------------------------------------------
(* Groupings shared by tools 4 to 10.                                       *)

\* df[col].dropna().unique(): the non-null keys in order of first appearance
GroupKeys(rows, F(_)) ==
    Unique(SelectSeq([i \in 1..Len(rows) |-> F(rows[i])], LAMBDA k : ~IsNa(k)))

\* len(group_df), group_df['Quantity'].sum(), group_df['Total Price (USD)'].sum()
Group(key, rows) ==
    [ key |-> key,
      total_orders |-> Len(rows),
      total_quantity |-> SumQuantity(rows),
      total_value_usd |-> SumPrice(rows) ]

\* for key in df[col].dropna().unique(): group_df = df[df[col] == key]; one
\* node per key
GroupsOf(rows, F(_), Node(_, _)) ==
    LET keys == GroupKeys(rows, F) IN
    [i \in 1..Len(keys) |->
        Node(keys[i], SelectSeq(rows, LAMBDA row : F(row) = keys[i]))]

GroupBy(rows, F(_)) == GroupsOf(rows, F, Group)

\* list.sort(key=..., reverse=True): descending, equal keys keep their order.
\* An element's place is one more than the number of elements that go before it.
\* (Series.sort_values(ascending=False) orders equal values as its sort
\* algorithm happens to; they are kept in their order here.)
SortDesc(seq, V(_)) ==
    LET Place(i) ==
            1 + Cardinality({j \in 1..Len(seq) :
                                \/ V(seq[j]) > V(seq[i])
                                \/ V(seq[j]) = V(seq[i]) /\ j < i})
    IN [k \in 1..Len(seq) |-> seq[CHOOSE i \in 1..Len(seq) : Place(i) = k]]

\* a cut that keeps the end of the list: seq[-n:]
LastN(seq, n) ==
    SubSeq(seq, IF Len(seq) < n THEN 1 ELSE Len(seq) - n + 1, Len(seq))

\* seq[:n], Series.head(n)
FirstN(seq, n) == SubSeq(seq, 1, IF Len(seq) < n THEN Len(seq) ELSE n)

\* a key that takes a missing dimension for 0
DimsFilled(row) ==
    [kind |-> "dims",
     v |-> <<IF row.Length.kind = "num" THEN row.Length.v ELSE 0,
             IF row.Width.kind = "num" THEN row.Width.v ELSE 0,
             IF row.Height.kind = "num" THEN row.Height.v ELSE 0>>]

\* the (Length, Width, Height) key of a row; groupby drops a key with a NaN in it
Dims(row) ==
    IF row.Length.kind = "num" /\ row.Width.kind = "num" /\ row.Height.kind = "num"
    THEN [kind |-> "dims", v |-> <<row.Length.v, row.Width.v, row.Height.v>>]
    ELSE [kind |-> "nan", v |-> <<>>]

\* groupby sorts its keys: tuples ascending
DimsLess(a, b) ==
    \/ a.v[1] < b.v[1]
    \/ a.v[1] = b.v[1] /\ a.v[2] < b.v[2]
    \/ a.v[1] = b.v[1] /\ a.v[2] = b.v[2] /\ a.v[3] < b.v[3]

RECURSIVE InsertDims(_, _)
InsertDims(sorted, k) ==
    IF sorted = <<>> THEN <<k>>
    ELSE IF DimsLess(k, Head(sorted)) THEN <<k>> \o sorted
         ELSE <<Head(sorted)>> \o InsertDims(Tail(sorted), k)

RECURSIVE SortedDims(_)
SortedDims(keys) ==
    IF keys = <<>> THEN <<>>
    ELSE InsertDims(SortedDims(SubSeq(keys, 1, Len(keys) - 1)), keys[Len(keys)])

\* df.groupby(['Length', 'Width', 'Height']): one node per key, keys ascending
GroupsByDims(rows, Node(_, _)) ==
    LET keys == SortedDims(GroupKeys(rows, Dims)) IN
    [i \in 1..Len(keys) |->
        Node(keys[i], SelectSeq(rows, LAMBDA row : Dims(row) = keys[i]))]

GroupByDims(rows) == GroupsByDims(rows, Group)

\* {"length": float(dims[0]), "width": float(dims[1]), "height": float(dims[2])}
DimensionsOf(dims) ==
    [length |-> Num(dims.v[1]), width |-> Num(dims.v[2]), height |-> Num(dims.v[3])]

\* df.groupby('Product: Product SKU'): one node per non-null SKU, SKUs ascending
GroupsBySku(rows, Node(_, _)) ==
    LET skus == GroupKeys(rows, LAMBDA row : row.sku)
        keys == SortedStrs([i \in 1..Len(skus) |-> skus[i].s])
    IN [i \in 1..Len(keys) |->
           Node(Str(keys[i]), SelectSeq(rows, LAMBDA row : row.sku = Str(keys[i])))]

\* groupby('Product: Product SKU')['Quantity'].sum().sort_values(ascending=False)
QuantityBySku(rows) ==
    SortDesc(GroupsBySku(rows, LAMBDA sku, group :
                 [product_sku |-> sku, quantity |-> SumQuantity(group)]),
             LAMBDA g : g.quantity)

\* seasons that follow the calendar quarters
SeasonByQuarter(month) ==
    IF month \in {1, 2, 3} THEN "Winter"
    ELSE IF month \in {4, 5, 6} THEN "Spring"
    ELSE IF month \in {7, 8, 9} THEN "Summer"
    ELSE "Fall"

\* get_season(month)
get_season(month) ==
    IF month \in {12, 1, 2} THEN "Winter"
    ELSE IF month \in {3, 4, 5} THEN "Spring"
    ELSE IF month \in {6, 7, 8} THEN "Summer"
    ELSE "Fall"

\* for x in fixed_values: sub = df[df[col] == x]; if not sub.empty: append
GroupsByFixed(rows, values, F(_), Node(_, _)) ==
    LET present == SelectSeq(values, LAMBDA x : \E i \in 1..Len(rows) : F(rows[i]) = x)
    IN [i \in 1..Len(present) |->
           Node(present[i], SelectSeq(rows, LAMBDA row : F(row) = present[i]))]

\* max(seq, key=...): the first maximal element
MaxBy(seq, V(_)) ==
    seq[CHOOSE i \in 1..Len(seq) :
            /\ \A j \in 1..Len(seq) : V(seq[j]) <= V(seq[i])
            /\ \A j \in 1..(i - 1) : V(seq[j]) < V(seq[i])]

\* sorted(df['YEAR'].unique())
RECURSIVE InsertAsc(_, _)
InsertAsc(sorted, x) ==
    IF sorted = <<>> THEN <<x>>
    ELSE IF x < Head(sorted) THEN <<x>> \o sorted
         ELSE <<Head(sorted)>> \o InsertAsc(Tail(sorted), x)

RECURSIVE SortedInts(_)
SortedInts(seq) ==
    IF seq = <<>> THEN <<>>
    ELSE InsertAsc(SortedInts(SubSeq(seq, 1, Len(seq) - 1)), seq[Len(seq)])

\* for year in sorted(group_df['YEAR'].unique()): year_df = group_df[YEAR == year]
GroupsByYear(rows, Node(_, _)) ==
    LET years == SortedInts(Unique([i \in 1..Len(rows) |-> rows[i].YEAR.v])) IN
    [i \in 1..Len(years) |->
        Node(years[i], SelectSeq(rows, LAMBDA row : row.YEAR.v = years[i]))]

\* the yearly breakdown of a colour, dimension or segment trend
YearlyData(rows) ==
    GroupsByYear(rows, LAMBDA year, year_df :
        [year |-> year, orders |-> Len(year_df),
         total_quantity |-> SumQuantity(year_df)])

\* the yearly breakdown of a family trend
FamilyYearlyData(rows) ==
    GroupsByYear(rows, LAMBDA year, year_df :
        [year |-> year, orders |-> Len(year_df),
         total_quantity |-> SumQuantity(year_df),
         total_value_usd |-> SumPrice(year_df),
         avg_quantity_per_order |-> MeanQuantity(year_df)])

\* yearly_trend of a family and yearly_breakdown of the summary
YearlyBreakdown(rows) ==
    GroupsByYear(rows, LAMBDA year, year_df :
        [year |-> year, orders |-> Len(year_df),
         quantity |-> SumQuantity(year_df),
         value_usd |-> SumPrice(year_df)])

\* Series.nunique() of the YEAR column
YearsActive(rows) == Cardinality({rows[i].YEAR.v : i \in 1..Len(rows)})

\* round(total_orders / years_active, 2) if years_active > 0 else 0: hundredths
AvgOrdersPerYear(rows) ==
    IF YearsActive(rows) > 0 THEN RoundDiv(Len(rows) * 100, YearsActive(rows)) ELSE 0

----------------------------------------------------------------------------
(* Tools 4 to 10: the analyses of one account.  Each handler validates the  *)
(* account code, fetches, filters by account and returns its empty result   *)
(* or its groupings.  Amounts of money are in 1/Scale units unless rounded  *)
(* (hundredths); the month names and date strings of the results are left   *)
(* out, a month standing for its name.                                      *)

\* the part the seven handlers have in common, up to the empty check
AccountAnalysis(account_code, src, current_year, prefix, empty, Body(_, _)) ==
    IF AccountBlank(account_code) THEN Returned(EmptyAccountError, <<>>, NoData)
    ELSE
    LET df == _get_processed_data(src, current_year) IN
    IF df.kind = "raise"
    THEN Returned(Except(prefix, df.exc), df.requests, NoData)
    ELSE
    LET df_filtered == _filter_by_account(df.rows, account_code) IN
    IF df_filtered = <<>>
    THEN Returned(empty, df.requests, Data(df.rows))
    ELSE Returned(Body(df_filtered, df.rows), df.requests, Data(df.rows))

NoDataMessage == "No data found for account"

get_customer_product_trends(account_code, src, current_year) ==
    AccountAnalysis(account_code, src, current_year,
        "Error analyzing product trends: ",
        [success |-> TRUE, trends |-> <<>>, message |-> NoDataMessage],
        LAMBDA df_filtered, df :
            LET family_trends ==
                    GroupsOf(df_filtered, LAMBDA r : r.family,
                        LAMBDA family, family_df :
                            [product_family |-> family,
                             total_orders |-> Len(family_df),
                             total_quantity |-> SumQuantity(family_df),
                             yearly_breakdown |-> FamilyYearlyData(family_df)])
                color_trends ==
                    GroupsOf(df_filtered, LAMBDA r : r.color,
                        LAMBDA color, color_df :
                            [stone_color |-> color,
                             total_orders |-> Len(color_df),
                             total_quantity |-> SumQuantity(color_df),
                             yearly_breakdown |-> YearlyData(color_df)])
                dimension_trends ==
                    SortDesc(
                        GroupsByDims(df_filtered, LAMBDA dims, group :
                            [dimensions |-> DimensionsOf(dims),
                             total_orders |-> Len(group),
                             total_quantity |-> SumQuantity(group),
                             yearly_breakdown |-> YearlyData(group)]),
                        LAMBDA g : g.total_quantity)
                segment_trends ==
                    GroupsOf(df_filtered, LAMBDA r : r.segment,
                        LAMBDA segment, segment_df :
                            [segment |-> segment,
                             total_orders |-> Len(segment_df),
                             total_quantity |-> SumQuantity(segment_df),
                             yearly_breakdown |-> YearlyData(segment_df)])
            IN [success |-> TRUE,
                account_code |-> account_code,
                trends |-> [by_product_family |-> family_trends,
                            by_stone_color |-> color_trends,
                            by_dimensions |-> FirstN(dimension_trends, 10),
                            by_segment |-> segment_trends]])

get_customer_order_patterns(account_code, src, current_year) ==
    AccountAnalysis(account_code, src, current_year,
        "Error analyzing order patterns: ",
        [success |-> TRUE, patterns |-> <<>>, message |-> NoDataMessage],
        LAMBDA df_filtered, df :
            LET quarter_pattern ==
                    GroupsByFixed(df_filtered, <<1, 2, 3, 4>>, LAMBDA r : r.QUARTER.v,
                        LAMBDA quarter, quarter_df :
                            [quarter |-> quarter,
                             total_orders |-> Len(quarter_df),
                             total_quantity |-> SumQuantity(quarter_df),
                             total_value_usd |-> SumPrice(quarter_df),
                             avg_order_value |-> MeanPrice(quarter_df),
                             percentage_of_annual_orders |->
                                 PercentageOfOrders(Len(quarter_df), df_filtered, df)])
                month_pattern ==
                    GroupsByFixed(df_filtered, <<1, 2, 3, 4, 5, 6, 7, 8, 9, 10, 11, 12>>,
                        LAMBDA r : r.MONTH.v,
                        LAMBDA month, month_df :
                            [month |-> month,
                             total_orders |-> Len(month_df),
                             total_quantity |-> SumQuantity(month_df),
                             total_value_usd |-> SumPrice(month_df),
                             percentage_of_annual_orders |->
                                 PercentageOfOrders(Len(month_df), df_filtered, df)])
                top_months == FirstN(SortDesc(month_pattern, LAMBDA g : g.total_orders), 3)
                top_quarters ==
                    FirstN(SortDesc(quarter_pattern, LAMBDA g : g.total_orders), 2)
            IN [success |-> TRUE,
                account_code |-> account_code,
                summary |->
                   [total_years_active |-> YearsActive(df_filtered),
                    total_orders |-> Len(df_filtered),
                    avg_orders_per_year |-> AvgOrdersPerYear(df_filtered),
                    top_ordering_months |->
                        [i \in 1..Len(top_months) |-> top_months[i].month],
                    top_ordering_quarters |->
                        [i \in 1..Len(top_quarters) |-> top_quarters[i].quarter]],
                patterns |-> [by_quarter |-> quarter_pattern,
                              by_month |-> month_pattern]])

get_customer_product_by_segment(account_code, src, current_year) ==
    AccountAnalysis(account_code, src, current_year,
        "Error analyzing segments: ",
        [success |-> TRUE, segments |-> <<>>, message |-> NoDataMessage],
        LAMBDA df_filtered, df :
            LET segments_analysis ==
                    GroupsOf(df_filtered, LAMBDA r : r.segment,
                        LAMBDA segment, segment_df :
                            LET top_products ==
                                    SortDesc(
                                        GroupsBySku(segment_df, LAMBDA sku, group :
                                            [product_sku |-> sku,
                                             orders |-> Len(group),
                                             total_quantity |-> SumQuantity(group),
                                             total_value_usd |-> SumPrice(group)]),
                                        LAMBDA p : p.total_quantity)
                            IN [segment |-> segment,
                                total_orders |-> Len(segment_df),
                                total_quantity |-> SumQuantity(segment_df),
                                total_value_usd |-> SumPrice(segment_df),
                                unique_products |-> NUnique(segment_df, LAMBDA r : r.sku),
                                top_products |-> FirstN(top_products, 5)])
                sorted_analysis == SortDesc(segments_analysis, LAMBDA g : g.total_value_usd)
            IN [success |-> TRUE,
                account_code |-> account_code,
                total_segments |-> Len(sorted_analysis),
                segments |-> sorted_analysis])

get_customer_product_by_color(account_code, src, current_year) ==
    AccountAnalysis(account_code, src, current_year,
        "Error analyzing colors: ",
        [success |-> TRUE, colors |-> <<>>, message |-> NoDataMessage],
        LAMBDA df_filtered, df :
            LET colors_analysis ==
                    GroupsOf(df_filtered, LAMBDA r : r.color,
                        LAMBDA color, color_df :
                            LET products_in_color ==
                                    SortDesc(
                                        GroupsBySku(color_df, LAMBDA sku, group :
                                            [product_sku |-> sku,
                                             product_family |-> group[1].family,
                                             orders |-> Len(group),
                                             total_quantity |-> SumQuantity(group)]),
                                        LAMBDA p : p.total_quantity)
                            IN [stone_color |-> color,
                                total_orders |-> Len(color_df),
                                total_quantity |-> SumQuantity(color_df),
                                total_value_usd |-> SumPrice(color_df),
                                unique_products |-> NUnique(color_df, LAMBDA r : r.sku),
                                products |-> FirstN(products_in_color, 10)])
                sorted_analysis == SortDesc(colors_analysis, LAMBDA g : g.total_quantity)
            IN [success |-> TRUE,
                account_code |-> account_code,
                total_colors |-> Len(sorted_analysis),
                colors |-> sorted_analysis])

get_customer_product_by_family(account_code, src, current_year) ==
    AccountAnalysis(account_code, src, current_year,
        "Error analyzing product families: ",
        [success |-> TRUE, families |-> <<>>, message |-> NoDataMessage],
        LAMBDA df_filtered, df :
            LET families_analysis ==
                    GroupsOf(df_filtered, LAMBDA r : r.family,
                        LAMBDA family, family_df :
                            [product_family |-> family,
                             total_orders |-> Len(family_df),
                             total_quantity |-> SumQuantity(family_df),
                             total_value_usd |-> SumPrice(family_df),
                             unique_products |-> NUnique(family_df, LAMBDA r : r.sku),
                             yearly_trend |-> YearlyBreakdown(family_df)])
                sorted_analysis == SortDesc(families_analysis, LAMBDA g : g.total_value_usd)
            IN [success |-> TRUE,
                account_code |-> account_code,
                total_families |-> Len(sorted_analysis),
                families |-> sorted_analysis])

get_customer_summary_stats(account_code, src, current_year) ==
    AccountAnalysis(account_code, src, current_year,
        "Error getting customer summary: ",
        [success |-> TRUE, stats |-> <<>>, message |-> NoDataMessage],
        LAMBDA df_filtered, df :
            LET total_orders == Len(df_filtered)
                total_value == SumPrice(df_filtered)
                most_common_dims ==
                    FirstN(SortDesc(GroupsByDims(df_filtered, LAMBDA dims, group :
                                        [dimensions |-> DimensionsOf(dims),
                                         order_count |-> Len(group)]),
                                    LAMBDA g : g.order_count), 3)
            IN [success |-> TRUE,
                account_code |-> account_code,
                summary |-> [total_orders |-> total_orders,
                             total_quantity |-> SumQuantity(df_filtered),
                             total_value_usd |-> Round2(total_value, 1),
                             avg_order_value_usd |->
                                 IF total_orders > 0
                                 THEN Round2(total_value, total_orders) ELSE 0,
                             years_active |-> YearsActive(df_filtered),
                             avg_orders_per_year |-> AvgOrdersPerYear(df_filtered)],
                product_diversity |->
                   [unique_product_skus |-> NUnique(df_filtered, LAMBDA r : r.sku),
                    unique_product_families |-> NUnique(df_filtered, LAMBDA r : r.family),
                    unique_stone_colors |-> NUnique(df_filtered, LAMBDA r : r.color),
                    unique_segments |-> NUnique(df_filtered, LAMBDA r : r.segment)],
                top_products |-> [by_quantity |-> FirstN(QuantityBySku(df_filtered), 5)],
                most_common_dimensions |-> most_common_dims,
                yearly_breakdown |-> YearlyBreakdown(df_filtered)])

\* the Season value of a row of df_filtered; a row the column has no value for
\* belongs to no season
SeasonOf(row, df_filtered, Season) ==
    LET at == {k \in DOMAIN df_filtered \cap DOMAIN Season : df_filtered[k].id = row.id}
    IN IF at = {} THEN "" ELSE Season[CHOOSE k \in at : TRUE]

\* df_filtered['Season'] = df_filtered['MONTH'].apply(get_season)
SeasonColumn(df_filtered) ==
    [k \in DOMAIN df_filtered |-> get_season(df_filtered[k].MONTH.v)]

\* the seasonal analysis of df_filtered once it has its Season column; max()
\* of an empty list raises ValueError, which the handler's except turns into a
\* failure result
SeasonalResult(account_code, df_filtered, Season, df) ==
    LET seasonal_data ==
            GroupsByFixed(df_filtered, <<"Spring", "Summer", "Fall", "Winter">>,
                LAMBDA r : SeasonOf(r, df_filtered, Season),
                LAMBDA season, season_df :
                    [season |-> season,
                     total_orders |-> Len(season_df),
                     total_quantity |-> SumQuantity(season_df),
                     total_value_usd |-> SumPrice(season_df),
                     percentage_of_annual_orders |->
                         PercentageOfOrders(Len(season_df), df_filtered, df),
                     top_products |-> FirstN(QuantityBySku(season_df), 3)])
    IN IF seasonal_data = <<>>
       THEN Except("Error analyzing seasonal patterns: ", "ValueError")
       ELSE LET peak_season == MaxBy(seasonal_data, LAMBDA g : g.total_orders)
            IN [success |-> TRUE,
                account_code |-> account_code,
                peak_season |-> peak_season.season,
                seasonal_patterns |-> seasonal_data]

get_customer_seasonal_analysis(account_code, src, current_year) ==
    AccountAnalysis(account_code, src, current_year,
        "Error analyzing seasonal patterns: ",
        [success |-> TRUE, seasonal_patterns |-> <<>>, message |-> NoDataMessage],
        LAMBDA df_filtered, df :
            SeasonalResult(account_code, df_filtered, SeasonColumn(df_filtered), df))

----------------------------------------------------------------------------
(* get_top_items_summary: the grouping-field name is checked against the    *)
(* closed set before the Record Source is asked.                            *)

ValidGroupFields ==
    << "Account Name: Account Code", "Product: Product Family",
       "Product: Product SKU", "Product: STONE Color Type" >>

\* the column a valid grouping field names
FieldOf(row, field) ==
    CASE field = "Account Name: Account Code" -> row.account_code
      [] field = "Product: Product Family" -> row.family
      [] field = "Product: Product SKU" -> row.sku
      [] field = "Product: STONE Color Type" -> row.color

IsValidGroupField(field) == \E i \in 1..Len(ValidGroupFields) : ValidGroupFields[i] = field

TopItems == 10

\* a handler that fetches first and validates the field afterwards
TopItemsFetchFirst(group_by, src, current_year) ==
    LET df == _get_processed_data(src, current_year) IN
    IF df.kind = "raise"
    THEN Returned(Except("Error getting top items summary: ", df.exc),
                  df.requests, NoData)
    ELSE Returned([success |-> FALSE,
                   error |-> <<"Invalid group_by field. Valid fields: ">>
                             \o ValidGroupFields],
                  df.requests, Data(df.rows))

get_top_items_summary(group_by, src, current_year) ==
    IF ~IsValidGroupField(group_by)
    THEN Returned([success |-> FALSE,
                   error |-> <<"Invalid group_by field. Valid fields: ">>
                             \o ValidGroupFields],
                  <<>>, NoData)
    ELSE
    LET df == _get_processed_data(src, current_year) IN
    IF df.kind = "raise"
    THEN Returned(Except("Error getting top items summary: ", df.exc),
                  df.requests, NoData)
    ELSE IF df.rows = <<>>
    THEN Returned([success |-> TRUE, count |-> 0, data |-> <<>>,
                   message |-> "No data found"],
                  df.requests, Data(df.rows))
    ELSE
    LET groups == SortDesc(GroupBy(df.rows, LAMBDA row : FieldOf(row, group_by)),
                           LAMBDA g : g.total_value_usd)
        top == FirstN(groups, TopItems)
    IN Returned([success |-> TRUE, count |-> Len(top), data |-> top],
                df.requests, Data(df.rows))

----------------------------------------------------------------------------
(* Inputs *)

sA == <<65>>                \* "A"
sB == <<66>>                \* "B"
sC == <<67>>                \* "C"
s_a_sp == <<97, 32>>        \* "a "
sp_a_sp == <<32, 97, 32>>   \* " a "
sp == <<32>>                \* " "
sS == <<83>>                \* "S"
sF == <<70>>                \* "F"
sG == <<71>>                \* "G"

\* a raw record: the account code, created date, quantity and total price
\* vary; the other fields are those of one product
RawRecord(acct, date, qty, price) ==
    [ Account_Code |-> acct,
      Created_Date |-> date,
      Quantity |-> qty,
      Total_Price_USD |-> price,
      StockKeepingUnit |-> Str(sS),
      Family |-> Str(sF),
      STONE_Color_Type |-> Str(sG),
      Segment |-> Str(sS),
      Length |-> RawNum(60 * Scale),
      Width |-> RawNum(30 * Scale),
      Height |-> RawNum(2 * Scale) ]

\* all sequences over S of length at most n
RECURSIVE SeqsUpTo(_, _)
SeqsUpTo(S, n) ==
    IF n = 0 THEN {<<>>}
    ELSE LET shorter == SeqsUpTo(S, n - 1) IN
         shorter \cup {Append(q, x) : q \in shorter, x \in S}

\* how a round-trip to the Record Source can end
FailureModes ==
    {"no_credentials", "auth_error", "network_error", "not_a_mapping", "no_records_key"}

Sources(Records) ==
    {[mode |-> "ok", records |-> rs] : rs \in SeqsUpTo(Records, MaxRecords)}
    \cup {[mode |-> m, records |-> <<>>] : m \in FailureModes}

\* the records the pipeline claims are checked on
PipelineRecords ==
    LET q == RawNum(5 * Scale)
        p == RawNum(100 * Scale)
        d == RawStamp(FirstYear, 3)
    IN
    {RawRecord(Str(a), d, q, p) : a \in {sA, sB, s_a_sp}}
    \cup {RawRecord(Str(sA), dt, q, p) :
        dt \in {RawStamp(FirstYear, 7), RawStamp(FirstYear - 1, 3),
                RawStamp(MinYear, 1), RawStamp(MinYear - 1, 12),
                RawStamp(FirstYear + 1, 1),
                RawDateNone, RawDateAbsent, RawDateText}}
    \cup {RawRecord(a, d, q, p) : a \in {None, AbsentStr}}
    \cup {RawRecord(Str(sA), d, x, p) :
        x \in {RawNone, RawAbsent, RawText, RawInf,
               RawNum(2 * Scale + 7), RawNum(-(2 * Scale + 7))}}
    \cup {RawRecord(Str(sA), d, q, x) : x \in {RawNone, RawText}}

\* the records the entry-point claims are checked on: three accounts, a row
\* of the first year the filter keeps, a record without a date and one with a
\* non-finite quantity
ToolRecords ==
    LET p == RawNum(100 * Scale) IN
    { RawRecord(Str(sA), RawStamp(FirstYear, 3), RawNum(5 * Scale), p),
      RawRecord(Str(s_a_sp), RawStamp(FirstYear - 1, 7), RawNum(2 * Scale), RawNone),
      RawRecord(Str(sB), RawStamp(FirstYear, 11), RawNum(1 * Scale), p),
      RawRecord(Str(sB), RawStamp(MinYear, 1), RawNum(3 * Scale), p),
      RawRecord(Str(sA), RawDateNone, RawNum(4 * Scale), p),
      RawRecord(Str(sA), RawDateAbsent, RawNum(4 * Scale), p),
      RawRecord(Str(sA), RawStamp(FirstYear, 3), RawInf, p) }

\* a raw record of any product: the SKU, family, colour, segment and length
\* vary as well
RawOrder(acct, date, qty, price, sku, family, color, segment, length) ==
    [RawRecord(acct, date, qty, price) EXCEPT
        !.StockKeepingUnit = sku, !.Family = family, !.STONE_Color_Type = color,
        !.Segment = segment, !.Length = length]

\* the k-th order of an account with a long history: every order has its own
\* SKU, slab length and quantity; the orders fall in four months of three
\* quarters, the last ones in the year before
BaseOrder(k) ==
    RawOrder(Str(sA),
             RawStamp(IF k <= 8 THEN FirstYear ELSE FirstYear - 1,
                      <<7, 1, 2, 4>>[(k % 4) + 1]),
             RawNum(k * Scale), RawNum(10 * k * Scale),
             Str(<<83, 64 + k>>), Str(sF), Str(sG), Str(sS), RawNum(k * Scale))

BaseBatch == [k \in 1..BaseOrders |-> BaseOrder(k)]

\* the records the analysis claims are checked on: an order without a price,
\* one without a length, one of another account, orders in another month and
\* another quarter, and one without family, colour and segment
AnalysisRecords ==
    LET len == RawNum(60 * Scale) IN
    { RawOrder(Str(sA), RawStamp(FirstYear, 2), RawNum(5 * Scale), RawNone,
               Str(sS), Str(sF), Str(sG), Str(sS), len),
      RawOrder(Str(sA), RawStamp(FirstYear - 1, 8), RawNum(2 * Scale),
               RawNum(100 * Scale), Str(sB), Str(sC), Str(sG), Str(sS), RawNone),
      RawOrder(Str(sB), RawStamp(FirstYear, 3), RawNum(1 * Scale),
               RawNum(100 * Scale), Str(sS), Str(sF), Str(sG), Str(sS), len),
      RawOrder(Str(sA), RawStamp(FirstYear, 5), RawNum(3 * Scale),
               RawNum(70 * Scale), Str(sC), Str(sF), Str(sC), Str(sC), len),
      RawOrder(Str(sA), RawStamp(FirstYear, 1), RawNum(4 * Scale),
               RawNum(50 * Scale), Str(sS), Str(sF), Str(sG), Str(sS), len),
      RawOrder(Str(sA), RawStamp(FirstYear, 11), RawNum(7 * Scale),
               RawNum(30 * Scale), Str(sG), None, None, None, len) }

\* the batches of the analysis claims: a few records, alone or after the long
\* history
AnalysisSources ==
    {[mode |-> "ok", records |-> prefix \o rs] :
        prefix \in {<<>>, BaseBatch}, rs \in SeqsUpTo(AnalysisRecords, MaxRecords)}
    \cup {[mode |-> m, records |-> <<>>] : m \in FailureModes}

\* the year and years_back arguments
YearArgs == {NoYear, Year(0), Year(FirstYear), Year(FirstYear - 2)}
YearsBackArgs == {-1, 0, 1, 5}

\* the grouping-field names a caller passes
GroupFieldArgs ==
    {ValidGroupFields[i] : i \in 1..Len(ValidGroupFields)}
    \cup {"Invalid Field", "product: product family"}

\* the account codes a caller passes
AccountArgs == {None, Str(<<>>), Str(sp), Str(sp_a_sp), Str(sB), Str(sC)}

NoCall == [tool |-> "", account_code |-> None, year |-> NoYear, years_back |-> 0,
           field |-> ""]
NoResult == [pending |-> TRUE]

\* the calls that can be in progress at the same time
Invocations == {1, 2}

\* a call that has not been made, and the frames of a call before its fetch
NoInvocation ==
    [pc |-> "idle", tool |-> "", account_code |-> None,
     response |-> [mode |-> "", records |-> <<>>], requests |-> <<>>,
     overlapped |-> FALSE, result |-> NoResult]
NoFrame == [built |-> FALSE, df |-> <<>>, df_filtered |-> <<>>, Season |-> <<>>]

----------------------------------------------------------------------------
(* The state machine *)

\* the call returns: its effects become visible
Finish(c, ret) ==
    /\ pc' = "done"
    /\ call' = c
    /\ result' = ret.result
    /\ requests' = ret.requests
    /\ dataset' = ret.dataset
    /\ UNCHANGED <<now, source, invocations, frames>>

Call_get_all_contract_product_details ==
    /\ pc = "idle"
    /\ Finish([NoCall EXCEPT !.tool = "get_all_contract_product_details"],
              get_all_contract_product_details(source, now))

Call_get_contract_details_by_account ==
    /\ pc = "idle"
    /\ \E a \in AccountArgs :
         Finish([NoCall EXCEPT !.tool = "get_contract_details_by_account",
                               !.account_code = a],
                get_contract_details_by_account(a, source, now))

Call_get_all_customers_list ==
    /\ pc = "idle"
    /\ Finish([NoCall EXCEPT !.tool = "get_all_customers_list"],
              get_all_customers_list(source, now))

Call_get_customer_products ==
    /\ pc = "idle"
    /\ \E a \in AccountArgs, y \in YearArgs :
         Finish([NoCall EXCEPT !.tool = "get_customer_products",
                               !.account_code = a, !.year = y],
                get_customer_products(a, y, source, now))

Call_get_customer_purchase_history ==
    /\ pc = "idle"
    /\ \E a \in AccountArgs, years_back \in YearsBackArgs :
         Finish([NoCall EXCEPT !.tool = "get_customer_purchase_history",
                               !.account_code = a, !.years_back = years_back],
                get_customer_purchase_history(a, years_back, source, now))

Call_get_customer_product_trends ==
    /\ pc = "idle"
    /\ \E a \in AccountArgs :
         Finish([NoCall EXCEPT !.tool = "get_customer_product_trends",
                               !.account_code = a],
                get_customer_product_trends(a, source, now))

Call_get_customer_order_patterns ==
    /\ pc = "idle"
    /\ \E a \in AccountArgs :
         Finish([NoCall EXCEPT !.tool = "get_customer_order_patterns",
                               !.account_code = a],
                get_customer_order_patterns(a, source, now))

Call_get_customer_product_by_segment ==
    /\ pc = "idle"
    /\ \E a \in AccountArgs :
         Finish([NoCall EXCEPT !.tool = "get_customer_product_by_segment",
                               !.account_code = a],
                get_customer_product_by_segment(a, source, now))

Call_get_customer_product_by_color ==
    /\ pc = "idle"
    /\ \E a \in AccountArgs :
         Finish([NoCall EXCEPT !.tool = "get_customer_product_by_color",
                               !.account_code = a],
                get_customer_product_by_color(a, source, now))

Call_get_customer_product_by_family ==
    /\ pc = "idle"
    /\ \E a \in AccountArgs :
         Finish([NoCall EXCEPT !.tool = "get_customer_product_by_family",
                               !.account_code = a],
                get_customer_product_by_family(a, source, now))

Call_get_customer_summary_stats ==
    /\ pc = "idle"
    /\ \E a \in AccountArgs :
         Finish([NoCall EXCEPT !.tool = "get_customer_summary_stats",
                               !.account_code = a],
                get_customer_summary_stats(a, source, now))

Call_get_customer_seasonal_analysis ==
    /\ pc = "idle"
    /\ \E a \in AccountArgs :
         Finish([NoCall EXCEPT !.tool = "get_customer_seasonal_analysis",
                               !.account_code = a],
                get_customer_seasonal_analysis(a, source, now))

Call_get_top_items_summary ==
    /\ pc = "idle"
    /\ \E f \in GroupFieldArgs :
         Finish([NoCall EXCEPT !.tool = "get_top_items_summary", !.field = f],
                get_top_items_summary(f, source, now))

\* the Tool Invocation Layer has taken the result; nothing of the call is kept
Return ==
    /\ pc = "done"
    /\ pc' = "idle"
    /\ call' = NoCall
    /\ result' = NoResult
    /\ requests' = <<>>
    /\ dataset' = NoData
    /\ UNCHANGED <<now, source, invocations, frames>>

InitWith(sources) ==
    /\ now = FirstYear
    /\ source \in sources
    /\ invocations = [i \in Invocations |-> NoInvocation]
    /\ frames = [i \in Invocations |-> NoFrame]
    /\ pc = "idle"
    /\ call = NoCall
    /\ result = NoResult
    /\ requests = <<>>
    /\ dataset = NoData

Init == InitWith(Sources(ToolRecords))

Next ==
    \/ Call_get_all_customers_list
    \/ Call_get_customer_products
    \/ Call_get_customer_purchase_history
    \/ Call_get_customer_product_trends
    \/ Call_get_customer_order_patterns
    \/ Call_get_customer_product_by_segment
    \/ Call_get_customer_product_by_color
    \/ Call_get_customer_product_by_family
    \/ Call_get_customer_summary_stats
    \/ Call_get_customer_seasonal_analysis
    \/ Call_get_all_contract_product_details
    \/ Call_get_contract_details_by_account
    \/ Call_get_top_items_summary
    \/ Return

Spec == Init /\ [][Next]_vars

\* the pipeline on a wider range of records, read through the two tools that
\* return the dataset's rows
InitPipeline == InitWith(Sources(PipelineRecords))

NextPipeline ==
    \/ Call_get_all_contract_product_details
    \/ Call_get_contract_details_by_account
    \/ Return

SpecPipeline == InitPipeline /\ [][NextPipeline]_vars

\* the analyses of one account on batches with a long history
InitAnalysis == InitWith(AnalysisSources)

NextAnalysis ==
    \/ Call_get_customer_products
    \/ Call_get_customer_purchase_history
    \/ Call_get_customer_product_trends
    \/ Call_get_customer_order_patterns
    \/ Call_get_customer_product_by_segment
    \/ Call_get_customer_product_by_color
    \/ Call_get_customer_product_by_family
    \/ Call_get_customer_summary_stats
    \/ Call_get_customer_seasonal_analysis
    \/ Call_get_all_contract_product_details
    \/ Call_get_contract_details_by_account
    \/ Return

SpecAnalysis == InitAnalysis /\ [][NextAnalysis]_vars

\* _get_processed_data run twice on one batch: the first run leaves its frame
\* and its requests behind, the second runs in the state the first has left
Run_get_processed_data ==
    /\ pc = "idle"
    /\ LET df == _get_processed_data(source, now) IN
       /\ dataset' = (IF df.kind = "ok" THEN Data(df.rows) ELSE NoData)
       /\ requests' = df.requests
    /\ pc' = "ran"
    /\ call' = [NoCall EXCEPT !.tool = "_get_processed_data"]
    /\ UNCHANGED <<now, source, result, invocations, frames>>

Rerun_get_processed_data ==
    /\ pc = "ran"
    /\ LET df == _get_processed_data(source, now) IN
       /\ result' = [returned |-> df.kind = "ok", exc |-> df.exc, rows |-> df.rows]
       /\ requests' = requests \o df.requests
    /\ pc' = "done"
    /\ UNCHANGED <<now, source, call, dataset, invocations, frames>>

InitRerun == InitWith(Sources(PipelineRecords))

NextRerun ==
    \/ Run_get_processed_data
    \/ Rerun_get_processed_data
    \/ Return

SpecRerun == InitRerun /\ [][NextRerun]_vars

\* the customers list and the lookup of its entries, on records whose account
\* codes differ in case and whitespace or are blank
RoundTripRecords ==
    LET q == RawNum(5 * Scale)
        p == RawNum(100 * Scale)
    IN
    {RawRecord(a, RawStamp(FirstYear, 3), q, p) :
        a \in {Str(sA), Str(s_a_sp), Str(sB), Str(sp), Str(<<>>), None}}
    \cup {RawRecord(Str(sC), RawStamp(FirstYear + 1, 1), q, p)}

InitRoundTrip == InitWith(Sources(RoundTripRecords))

NextRoundTrip ==
    \/ Call_get_all_customers_list
    \/ Call_get_contract_details_by_account
    \/ Return

SpecRoundTrip == InitRoundTrip /\ [][NextRoundTrip]_vars

----------------------------------------------------------------------------
(* Calls in progress at the same time.  A handler is a sequence of steps:   *)
(* the validation, the round-trip with the pipeline, the account filter,    *)
(* the Season column (seasonal analysis only) and the reply; between two    *)
(* steps of one call the other call may take any number of its own.         *)

ConcurrentTools == {"get_customer_seasonal_analysis", "get_contract_details_by_account"}
ConcurrentAccounts == {Str(sp), Str(sp_a_sp), Str(sB)}

\* the records the calls in progress are run on
ConcurrentRecords ==
    { RawRecord(Str(sA), RawStamp(FirstYear, 2), RawNum(5 * Scale), RawNone),
      RawRecord(Str(sA), RawStamp(FirstYear, 7), RawNum(2 * Scale), RawNum(100 * Scale)),
      RawRecord(Str(sB), RawStamp(FirstYear, 3), RawNum(1 * Scale), RawNum(100 * Scale)) }

\* what the Record Source answers to one round-trip: the records it holds, or
\* those it held before the last one was added
Responses(src) ==
    {src} \cup (IF src.mode = "ok" /\ src.records # <<>>
                THEN {[src EXCEPT !.records = SubSeq(@, 1, Len(@) - 1)]}
                ELSE {})

\* a frame that every call finds under the same module-level name
SharedFrame(i) == 1

\* df, df_filtered and the Season column are local variables of the handler:
\* call i works on frames of its own
FrameOf(i) == i

InProgress(i) == invocations[i].pc \notin {"idle", "done"}

\* call i takes a step to the record inv
Step(i, inv) ==
    /\ invocations' =
          [invocations EXCEPT ![i] =
              [inv EXCEPT !.overlapped =
                  @ \/ \E j \in Invocations \ {i} : InProgress(j)]]
    /\ UNCHANGED <<now, source, pc, call, requests, dataset, result>>

ErrorPrefix(tool) ==
    IF tool = "get_customer_seasonal_analysis"
    THEN "Error analyzing seasonal patterns: "
    ELSE "Error processing data for account: "

\* the call arrives: `if not account_code or not account_code.strip()`
Invoke ==
    \E i \in Invocations, tool \in ConcurrentTools, a \in ConcurrentAccounts :
        /\ invocations[i].pc = "idle"
        /\ LET c == [NoInvocation EXCEPT !.tool = tool, !.account_code = a] IN
           Step(i, IF AccountBlank(a)
                   THEN [c EXCEPT !.pc = "done", !.result = EmptyAccountError]
                   ELSE [c EXCEPT !.pc = "called"])
        /\ UNCHANGED frames

\* df = _get_processed_data(): the call's own round-trip and pipeline run
RoundTrip ==
    \E i \in Invocations, response \in Responses(source) :
        /\ invocations[i].pc = "called"
        /\ LET df == _get_processed_data(response, now)
               inv == [invocations[i] EXCEPT !.response = response,
                                             !.requests = df.requests]
           IN IF df.kind = "raise"
              THEN /\ Step(i, [inv EXCEPT !.pc = "done",
                                          !.result = Except(ErrorPrefix(inv.tool), df.exc)])
                   /\ UNCHANGED frames
              ELSE /\ Step(i, [inv EXCEPT !.pc = "fetched"])
                   /\ frames' = [frames EXCEPT ![FrameOf(i)] =
                                    [NoFrame EXCEPT !.built = TRUE, !.df = df.rows]]

\* df_filtered = _filter_by_account(df, account_code) and the empty checks
Filter ==
    \E i \in Invocations :
        /\ invocations[i].pc = "fetched"
        /\ LET inv == invocations[i]
               frame == frames[FrameOf(i)]
               df_filtered == _filter_by_account(frame.df, inv.account_code)
               details == inv.tool = "get_contract_details_by_account"
           IN IF details /\ frame.df = <<>>
              THEN /\ Step(i, [inv EXCEPT !.pc = "done", !.result =
                          [success |-> TRUE, count |-> 0, data |-> <<>>,
                           message |-> "No data found (empty source) for account code"]])
                   /\ UNCHANGED frames
              ELSE IF df_filtered = <<>>
              THEN /\ Step(i, [inv EXCEPT !.pc = "done", !.result =
                          IF details
                          THEN [success |-> TRUE, count |-> 0, data |-> <<>>,
                                message |-> "No data found for account code"]
                          ELSE [success |-> TRUE, seasonal_patterns |-> <<>>,
                                message |-> NoDataMessage]])
                   /\ UNCHANGED frames
              ELSE /\ Step(i, [inv EXCEPT !.pc = "filtered"])
                   /\ frames' = [frames EXCEPT ![FrameOf(i)] =
                                    [frame EXCEPT !.df_filtered = df_filtered,
                                                  !.Season = <<>>]]

\* df_filtered['Season'] = df_filtered['MONTH'].apply(get_season)
AddSeason ==
    \E i \in Invocations :
        /\ invocations[i].pc = "filtered"
        /\ invocations[i].tool = "get_customer_seasonal_analysis"
        /\ Step(i, [invocations[i] EXCEPT !.pc = "seasoned"])
        /\ frames' = [frames EXCEPT ![FrameOf(i)].Season =
                         SeasonColumn(frames[FrameOf(i)].df_filtered)]

\* the handler builds its result from its frames and returns
Reply ==
    \E i \in Invocations :
        LET inv == invocations[i]
            frame == frames[FrameOf(i)]
        IN /\ \/ /\ inv.tool = "get_customer_seasonal_analysis"
                 /\ inv.pc = "seasoned"
                 /\ Step(i, [inv EXCEPT !.pc = "done", !.result =
                        SeasonalResult(inv.account_code, frame.df_filtered,
                                       frame.Season, frame.df)])
              \/ /\ inv.tool = "get_contract_details_by_account"
                 /\ inv.pc = "filtered"
                 /\ Step(i, [inv EXCEPT !.pc = "done", !.result =
                        [success |-> TRUE, count |-> Len(frame.df_filtered),
                         data |-> ToRecords(frame.df_filtered),
                         account_code |-> inv.account_code]])
           /\ UNCHANGED frames

InitConcurrent == InitWith(Sources(ConcurrentRecords))

NextConcurrent ==
    \/ Invoke
    \/ RoundTrip
    \/ Filter
    \/ AddSeason
    \/ Reply

SpecConcurrent == InitConcurrent /\ [][NextConcurrent]_vars

----------------------------------------------------------------------------
(* Claims about the Normalized Dataset (checked under SpecPipeline) *)

\* the rows a call read or returned
DatasetRows == IF dataset.built THEN dataset.rows ELSE <<>>
ReturnedRows ==
    IF /\ call.tool \in {"get_all_contract_product_details",
                         "get_contract_details_by_account"}
       /\ "data" \in DOMAIN result
    THEN result.data
    ELSE <<>>

RowIsMember(row) ==
    /\ row.account_code.kind = "str"
    /\ row.YEAR.kind = "num"
    /\ row.YEAR.v >= MinYear
    /\ row.YEAR.v <= now

\* C1. Membership: every row of the Normalized Dataset, and every row a tool
\* returns, has a non-null account code and a year in 2015..current_year.
C1_Membership ==
    /\ \A i \in 1..Len(DatasetRows) : RowIsMember(DatasetRows[i])
    /\ \A i \in 1..Len(ReturnedRows) : RowIsMember(ReturnedRows[i])

\* a response of two records, one of next year and so dropped, the other kept
C1_Witness ==
    /\ pc = "done"
    /\ Len(source.records) = 2
    /\ \E i \in 1..2 : source.records[i].Created_Date = RawStamp(now + 1, 1)
    /\ Len(DatasetRows) = 1
    /\ Len(ReturnedRows) = 1

\* the raw quantity a row of the dataset was made from
RawQuantity(row) == source.records[row.id].Quantity

\* C2 as stated. Quantity: every row's quantity is a non-negative integer,
\* whatever the raw value was.
C2_QuantityNonNegative ==
    \A i \in 1..Len(DatasetRows) : DatasetRows[i].Quantity \in Nat

\* C2 as amended. Quantity: every row's quantity is an integer and never null;
\* it is 0 for a null, absent or unparseable raw value and the raw number
\* truncated toward zero otherwise, so a raw quantity of -1 or less stays
\* negative.
C2_QuantityInteger ==
    \A i \in 1..Len(DatasetRows) :
        LET row == DatasetRows[i]
            raw == RawQuantity(row)
            qty == row.Quantity
        IN /\ qty \in Int
           /\ raw.kind \in {"none", "absent", "text"} => qty = 0
           /\ raw.kind = "num" /\ raw.v >= 0 =>
                 qty >= 0 /\ qty * Scale <= raw.v /\ raw.v < (qty + 1) * Scale
           /\ raw.kind = "num" /\ raw.v < 0 =>
                 qty <= 0 /\ (qty - 1) * Scale < raw.v /\ raw.v <= qty * Scale

\* a dataset holding a row made from a negative fractional quantity and a row
\* made from a null or unparseable one
C2_Witness ==
    /\ pc = "done"
    /\ Len(DatasetRows) = 2
    /\ \E i, j \in 1..2 :
         /\ RawQuantity(DatasetRows[i]).kind = "num"
         /\ RawQuantity(DatasetRows[i]).v < 0
         /\ DatasetRows[i].Quantity < 0
         /\ RawQuantity(DatasetRows[j]).kind \in {"none", "text"}

\* C3. Sort law: adjacent rows are in ascending code-point order of the account
\* code; within an account the year does not increase, and within a year the
\* month does not increase.
C3_SortLaw ==
    \A i \in 1..(Len(DatasetRows) - 1) :
        LET a == DatasetRows[i]
            b == DatasetRows[i + 1]
        IN \/ StrLess(a.account_code.s, b.account_code.s)
           \/ /\ a.account_code.s = b.account_code.s
              /\ a.YEAR.v >= b.YEAR.v
              /\ a.YEAR.v = b.YEAR.v => a.MONTH.v >= b.MONTH.v

\* the sort moved a later record of the same account in front of an earlier one
C3_Witness ==
    /\ pc = "done"
    /\ Len(DatasetRows) = 2
    /\ DatasetRows[1].id = 2
    /\ DatasetRows[1].account_code = DatasetRows[2].account_code
    /\ DatasetRows[1].YEAR.v > DatasetRows[2].YEAR.v

\* the account code of a row matches the argument up to case and surrounding
\* whitespace
AccountMatches(row, a) == Lower(Strip(row.account_code.s)) = Lower(Strip(a.s))

\* C4. Account filter: for a non-blank argument, get_contract_details_by_account
\* returns exactly the matching rows of the dataset, each once, in the
\* dataset's order.
C4_AccountFilter ==
    (/\ pc = "done"
     /\ call.tool = "get_contract_details_by_account"
     /\ ~AccountBlank(call.account_code)
     /\ dataset.built)
    =>
    LET rows == dataset.rows
        hits == {i \in 1..Len(rows) : AccountMatches(rows[i], call.account_code)}
    IN /\ result.success
       /\ result.count = Cardinality(hits)
       /\ Len(result.data) = Cardinality(hits)
       /\ \A k \in 1..Len(result.data) :
            \E i \in hits :
               /\ result.data[k].id = rows[i].id
               /\ Cardinality({j \in hits : j < i}) = k - 1

\* " a " selects a row stored as "A" and leaves out a row of another account
C4_Witness ==
    /\ pc = "done"
    /\ call.tool = "get_contract_details_by_account"
    /\ call.account_code = Str(sp_a_sp)
    /\ Len(dataset.rows) = 2
    /\ Len(ReturnedRows) = 1
    /\ ReturnedRows[1].account_code = Str(sA)

\* C10 as stated. Fail-soft coercion: with a reachable source and records that
\* carry a created date, a malformed numeric value never makes the call fail;
\* null, absent and unparseable values become null, and 0 for the quantity.
C10_FailSoftCoercion ==
    (/\ pc = "done"
     /\ call.tool = "get_all_contract_product_details"
     /\ source.mode = "ok"
     /\ source.records # <<>>
     /\ HasDatetimeColumn(source.records))
    =>
    /\ result.success
    /\ dataset.built
    /\ \A i \in 1..Len(dataset.rows) :
         LET row == dataset.rows[i]
             raw == source.records[row.id]
         IN /\ raw.Quantity.kind \in {"none", "absent", "text"} => row.Quantity = 0
            /\ raw.Total_Price_USD.kind \in {"none", "absent", "text"}
                  => row.Total_Price = NaN
            /\ raw.Length.kind \in {"none", "absent", "text"} => row.Length = NaN

----------------------------------------------------------------------------
(* Claims about the entry points (checked under Spec) *)

AccountTools ==
    { "get_customer_products", "get_customer_purchase_history",
      "get_customer_product_trends", "get_customer_order_patterns",
      "get_customer_product_by_segment", "get_customer_product_by_color",
      "get_customer_product_by_family", "get_customer_summary_stats",
      "get_customer_seasonal_analysis", "get_contract_details_by_account" }

\* null, empty or made of whitespace only
CallAccountIsBlank ==
    \/ call.account_code.kind = "none"
    \/ \A i \in 1..Len(call.account_code.s) : call.account_code.s[i] \in {9, 10, 13, 32}

IsFailure(res) ==
    /\ "success" \in DOMAIN res
    /\ res.success = FALSE
    /\ "error" \in DOMAIN res
    /\ res.error # <<>>

\* C5. Invalid argument before fetch: a call of an account tool with a null,
\* empty or whitespace-only account code returns a failure result and issues no
\* request to the Record Source.
C5_BlankAccountNoFetch ==
    (pc = "done" /\ call.tool \in AccountTools /\ CallAccountIsBlank)
    => /\ IsFailure(result)
       /\ requests = <<>>
       /\ ~dataset.built

\* a whitespace-only account code is refused although the source has records
C5_Witness ==
    /\ pc = "done"
    /\ call.tool = "get_customer_purchase_history"
    /\ call.account_code = Str(sp)
    /\ source.mode = "ok"
    /\ Len(source.records) = 2
    /\ IsFailure(result)
    /\ requests = <<>>

FourGroupFields ==
    { "Account Name: Account Code", "Product: Product Family",
      "Product: Product SKU", "Product: STONE Color Type" }

\* C6. Invalid grouping field: get_top_items_summary with a field name outside
\* the closed set returns a failure result that lists the four valid names,
\* without a fetch and without a dataset.
C6_InvalidGroupField ==
    (pc = "done" /\ call.tool = "get_top_items_summary"
                 /\ call.field \notin FourGroupFields)
    => /\ IsFailure(result)
       /\ \A f \in FourGroupFields :
             \E i \in 1..Len(result.error) : result.error[i] = f
       /\ requests = <<>>
       /\ ~dataset.built

\* a name that differs from a valid one in case only is refused
C6_Witness ==
    /\ pc = "done"
    /\ call.tool = "get_top_items_summary"
    /\ call.field = "product: product family"
    /\ source.mode = "ok"
    /\ source.records # <<>>
    /\ IsFailure(result)
    /\ requests = <<>>

\* the arguments of the call pass its validation
ValidArguments ==
    /\ call.tool \in AccountTools => ~CallAccountIsBlank
    /\ call.tool = "get_top_items_summary" => call.field \in FourGroupFields

\* a raw record that becomes a row of the Normalized Dataset and that the
\* call's account, year or years_back argument selects
RecordMatchesCall(r) ==
    /\ r.Account_Code.kind = "str"
    /\ r.Created_Date.kind = "stamp"
    /\ r.Created_Date.year >= MinYear
    /\ r.Created_Date.year <= now
    /\ call.tool \in AccountTools =>
          Lower(Strip(r.Account_Code.s)) = Lower(Strip(call.account_code.s))
    /\ (call.tool = "get_customer_products" /\ Truthy(call.year))
          => r.Created_Date.year = call.year.v
    /\ call.tool = "get_customer_purchase_history"
          => r.Created_Date.year >= now - call.years_back

ZeroRowsMatch ==
    \A i \in 1..Len(source.records) : ~RecordMatchesCall(source.records[i])

\* no record of the response is malformed
WellFormedRecords ==
    \A i \in 1..Len(source.records) :
        /\ source.records[i].Quantity.kind = "num"
        /\ source.records[i].Created_Date.kind = "stamp"

\* the collection of a result: the list or mapping its rows or groups are in
CollectionOf(res) ==
    CASE "customers" \in DOMAIN res -> res.customers
      [] "products" \in DOMAIN res -> res.products
      [] "data" \in DOMAIN res -> res.data
      [] "trends" \in DOMAIN res -> res.trends
      [] "patterns" \in DOMAIN res -> res.patterns
      [] "segments" \in DOMAIN res -> res.segments
      [] "colors" \in DOMAIN res -> res.colors
      [] "families" \in DOMAIN res -> res.families
      [] "stats" \in DOMAIN res -> res.stats
      [] "seasonal_patterns" \in DOMAIN res -> res.seasonal_patterns
      [] OTHER -> <<>>

HasCollection(res) ==
    DOMAIN res \cap {"customers", "products", "data", "trends", "patterns", "segments",
                     "colors", "families", "stats", "seasonal_patterns"} # {}

IsEmptySuccess(res) ==
    /\ "success" \in DOMAIN res
    /\ res.success = TRUE
    /\ HasCollection(res)
    /\ DOMAIN CollectionOf(res) = {}

\* C7 as stated. Empty result is success: with valid arguments, a reachable
\* source and well-formed records of which none matches, the result has
\* success = true, an empty collection and an explanatory message.
C7_EmptyResultIsSuccess ==
    (/\ pc = "done"
     /\ ValidArguments
     /\ source.mode = "ok"
     /\ WellFormedRecords
     /\ ZeroRowsMatch)
    => /\ IsEmptySuccess(result)
       /\ "message" \in DOMAIN result

\* the modes in which the round-trip raises
RaisingModes == {"no_credentials", "auth_error", "network_error", "not_a_mapping"}

IsBareFailure(res) == IsFailure(res) /\ DOMAIN res = {"success", "error"}

\* C8 as stated. Source unavailability: whenever the round-trip fails (missing
\* credentials, authentication or network error, malformed response), the call
\* returns a failure result that carries nothing of a dataset.
C8_SourceFailureIsFailure ==
    (pc = "done" /\ ValidArguments /\ source.mode # "ok")
    => IsBareFailure(result)

\* C8 as amended. When the round-trip raises (missing credentials,
\* authentication or network error, a response that is no mapping) the call
\* returns a failure result that carries nothing of a dataset; a response
\* mapping without a 'records' entry is read as an empty source and gives a
\* success result with an empty collection and a message.
C8_RaisedFailureIsFailure ==
    (pc = "done" /\ ValidArguments)
    => /\ source.mode \in RaisingModes => IsBareFailure(result) /\ ~dataset.built
       /\ source.mode = "no_records_key" =>
             /\ IsEmptySuccess(result)
             /\ "message" \in DOMAIN result
             /\ dataset.rows = <<>>

\* the query was sent and failed on the network; the call returned a failure
C8_Witness ==
    /\ pc = "done"
    /\ call.tool = "get_all_contract_product_details"
    /\ source.mode = "network_error"
    /\ requests = <<"login", "query">>
    /\ IsBareFailure(result)

----------------------------------------------------------------------------
(* Claims about records without a usable date (checked under SpecPipeline) *)

\* the created date of a raw record is null, absent or unparseable
DateUnusable(r) == r.Created_Date.kind \in {"none", "absent", "text"}

\* the rows of a DataFrame without their index labels
WithoutIndex(rows) == [i \in 1..Len(rows) |-> [rows[i] EXCEPT !.id = 0]]

\* C11 as stated. Null or unparseable date: in a batch whose quantities are all
\* finite, a record whose created date is null, absent or unparseable gets a
\* null timestamp, year, month and quarter, is not in the Normalized Dataset,
\* does not make the call fail, and the other records are processed as if it
\* were not there.
C11_NullDateExcluded ==
    (/\ pc = "done"
     /\ call.tool = "get_all_contract_product_details"
     /\ source.mode = "ok"
     /\ QuantityCastable(source.records)
     /\ \E i \in 1..Len(source.records) : DateUnusable(source.records[i]))
    =>
    LET others == SelectSeq(source.records, LAMBDA r : ~DateUnusable(r))
        alone == _get_processed_data([mode |-> "ok", records |-> others], now)
    IN /\ result.success
       /\ dataset.built
       /\ \A i \in 1..Len(source.records) :
            DateUnusable(source.records[i]) =>
               LET row == CanonicalRow(source.records[i], i)
               IN /\ row.Created_Date = NaT
                  /\ row.YEAR = NaN /\ row.MONTH = NaN /\ row.QUARTER = NaN
                  /\ \A k \in 1..Len(dataset.rows) : dataset.rows[k].id # i
       /\ alone.kind = "ok"
       /\ WithoutIndex(dataset.rows) = WithoutIndex(alone.rows)

\* C11 where it holds: the same, for a batch in which at least one record
\* carries the created-date key
C11_NullDateExcludedWhenColumnExists ==
    (HasDatetimeColumn(source.records)) => C11_NullDateExcluded

\* a record with an unparseable date was dropped and the other record kept
C11_Witness ==
    /\ pc = "done"
    /\ call.tool = "get_all_contract_product_details"
    /\ Len(source.records) = 2
    /\ source.records[1].Created_Date = RawDateText
    /\ result.success
    /\ Len(dataset.rows) = 1
    /\ dataset.rows[1].id = 2

----------------------------------------------------------------------------
(* Claims about the purchase history (checked under SpecAnalysis) *)

\* the sum of the values of a function with a finite domain
RECURSIVE SumFn(_)
SumFn(f) ==
    IF DOMAIN f = {} THEN 0
    ELSE LET k == CHOOSE k \in DOMAIN f : TRUE
         IN f[k] + SumFn([x \in (DOMAIN f) \ {k} |-> f[x]])

\* a call of get_customer_purchase_history that returned a tree
HistoryReturned ==
    /\ pc = "done"
    /\ call.tool = "get_customer_purchase_history"
    /\ result.success
    /\ "period" \in DOMAIN result

\* the value an order entry adds to the totals: its price, 0 for a null price
EntryValue(order) ==
    IF order.total_price_usd.kind = "num" THEN order.total_price_usd.v ELSE 0

\* C12. History tree totals are consistent across levels: each year's
\* total_orders, total_quantity and total_value_usd are the sums of the same
\* totals over its quarters; each quarter's total_orders is the number of order
\* entries in all its months, its total_quantity and total_value_usd are the
\* sums over its months; a month's totals are the sums over its order entries,
\* an entry with a null total price adding 0.
C12_TreeTotalsConsistent ==
    HistoryReturned =>
        \A y \in DOMAIN result.data :
            LET quarters == result.data[y].quarters IN
            /\ result.data[y].total_orders =
                   SumFn([q \in DOMAIN quarters |-> quarters[q].total_orders])
            /\ result.data[y].total_quantity =
                   SumFn([q \in DOMAIN quarters |-> quarters[q].total_quantity])
            /\ result.data[y].total_value_usd =
                   SumFn([q \in DOMAIN quarters |-> quarters[q].total_value_usd])
            /\ \A q \in DOMAIN quarters :
                   LET months == quarters[q].months IN
                   /\ quarters[q].total_orders =
                          SumFn([m \in DOMAIN months |-> Len(months[m].orders)])
                   /\ quarters[q].total_quantity =
                          SumFn([m \in DOMAIN months |-> months[m].total_quantity])
                   /\ quarters[q].total_value_usd =
                          SumFn([m \in DOMAIN months |-> months[m].total_value_usd])
                   /\ \A m \in DOMAIN months :
                          /\ months[m].total_quantity =
                                 SumFn([i \in DOMAIN months[m].orders |->
                                           months[m].orders[i].quantity])
                          /\ months[m].total_value_usd =
                                 SumFn([i \in DOMAIN months[m].orders |->
                                           EntryValue(months[m].orders[i])])

\* a tree with a year of several quarters, one of them of several months, one
\* of these holding a priced order and an order without a price
C12_Witness ==
    /\ HistoryReturned
    /\ \E y \in DOMAIN result.data :
          LET quarters == result.data[y].quarters IN
          /\ Cardinality(DOMAIN quarters) >= 2
          /\ \E q \in DOMAIN quarters :
                LET months == quarters[q].months IN
                /\ Cardinality(DOMAIN months) >= 2
                /\ \E m \in DOMAIN months :
                      /\ \E i \in DOMAIN months[m].orders :
                            months[m].orders[i].total_price_usd.kind = "none"
                      /\ \E i \in DOMAIN months[m].orders :
                            months[m].orders[i].total_price_usd.kind = "num"

\* the three running totals
ThreeTotals == {"total_orders", "total_quantity", "total_value_usd"}

\* C13 as stated. Every year node, every quarter node and every month node of
\* the returned tree carries an order count, a quantity sum and a value sum.
C13_EveryNodeCarriesThreeTotals ==
    HistoryReturned =>
        \A y \in DOMAIN result.data :
            /\ ThreeTotals \subseteq DOMAIN result.data[y]
            /\ \A q \in DOMAIN result.data[y].quarters :
                  LET qnode == result.data[y].quarters[q] IN
                  /\ ThreeTotals \subseteq DOMAIN qnode
                  /\ \A m \in DOMAIN qnode.months :
                        ThreeTotals \subseteq DOMAIN qnode.months[m]

\* C13, amended. Every year node and every quarter node of the returned tree
\* carries an order count, a quantity sum and a value sum; a month node carries
\* a quantity sum, a value sum and the list of its order entries, and no order
\* count of its own.
C13_NodesCarryTotals ==
    HistoryReturned =>
        \A y \in DOMAIN result.data :
            /\ DOMAIN result.data[y] = ThreeTotals \cup {"quarters"}
            /\ \A q \in DOMAIN result.data[y].quarters :
                  LET qnode == result.data[y].quarters[q] IN
                  /\ DOMAIN qnode = ThreeTotals \cup {"months"}
                  /\ \A m \in DOMAIN qnode.months :
                        DOMAIN qnode.months[m] =
                            {"orders", "total_quantity", "total_value_usd"}

\* a tree with a month of several orders
C13_Witness ==
    /\ HistoryReturned
    /\ \E y \in DOMAIN result.data :
          \E q \in DOMAIN result.data[y].quarters :
              \E m \in DOMAIN result.data[y].quarters[q].months :
                  Len(result.data[y].quarters[q].months[m].orders) >= 2

\* the places of the order entries in the returned tree, and the entry at a place
HistoryPlaces ==
    UNION {UNION {UNION {
        {<<y, q, m, k>> : k \in DOMAIN result.data[y].quarters[q].months[m].orders} :
            m \in DOMAIN result.data[y].quarters[q].months} :
            q \in DOMAIN result.data[y].quarters} :
            y \in DOMAIN result.data}

HistoryEntry(place) ==
    result.data[place[1]].quarters[place[2]].months[place[3]].orders[place[4]]

\* the rows of the dataset that belong to the call's account and window
RowsInWindow ==
    {i \in 1..Len(dataset.rows) :
        /\ AccountMatches(dataset.rows[i], call.account_code)
        /\ dataset.rows[i].YEAR.v >= now - call.years_back}

\* C14. History window: the order entries of the returned tree are exactly the
\* account's rows of the dataset with year >= current_year - years_back, each
\* row once, under the keys of its own year, quarter and month; every year key
\* lies within the bounds of the result's period.
C14_HistoryWindow ==
    HistoryReturned =>
        /\ \A i \in RowsInWindow :
              LET row == dataset.rows[i]
                  places == {p \in HistoryPlaces : HistoryEntry(p).id = row.id}
              IN /\ Cardinality(places) = 1
                 /\ \A p \in places :
                       /\ p[1] = row.YEAR.v
                       /\ p[2] = row.QUARTER.v
                       /\ p[3] = row.MONTH.v
                       /\ HistoryEntry(p).quantity = row.Quantity
                       /\ HistoryEntry(p).product_sku = row.sku
        /\ \A p \in HistoryPlaces :
              \E i \in RowsInWindow : dataset.rows[i].id = HistoryEntry(p).id
        /\ \A y \in DOMAIN result.data :
              result.period[1] <= y /\ y <= result.period[2]

\* a tree that holds the account's orders of the first year of the window,
\* while the account has an older order and the dataset an order of another
\* account
C14_Witness ==
    /\ HistoryReturned
    /\ HistoryPlaces # {}
    /\ \E i \in RowsInWindow : dataset.rows[i].YEAR.v = now - call.years_back
    /\ \E i \in 1..Len(dataset.rows) :
          /\ AccountMatches(dataset.rows[i], call.account_code)
          /\ i \notin RowsInWindow
    /\ \E i \in 1..Len(dataset.rows) :
          ~AccountMatches(dataset.rows[i], call.account_code)

----------------------------------------------------------------------------
(* Claims about the analyses of one account (checked under SpecAnalysis) *)

\* the rows of the dataset that belong to the call's account
AccountRows ==
    SelectSeq(DatasetRows, LAMBDA row : AccountMatches(row, call.account_code))

\* the number of the account's rows that satisfy P
CountRows(P(_)) == Cardinality({i \in 1..Len(AccountRows) : P(AccountRows[i])})

\* a call of an analysis that found rows of the account
AnalysisReturned(tool, field) ==
    /\ pc = "done"
    /\ call.tool = tool
    /\ result.success
    /\ field \in DOMAIN result
    /\ "account_code" \in DOMAIN result

\* p is count / total * 100 rounded to hundredths of a percent
IsPercentage(p, count, total) ==
    LET d == p * total - 10000 * count
    IN 2 * (IF d >= 0 THEN d ELSE -d) <= total

\* C15. Percentage of total uses the filtered total: each quarter, month and
\* season group's percentage_of_annual_orders is round(group_count / total_count
\* * 100, 2), group_count being the number of the account's rows in the group
\* and total_count the number of rows of the dataset that belong to the account.
C15_PercentageOfAccountRows ==
    /\ AnalysisReturned("get_customer_order_patterns", "patterns") =>
          /\ \A i \in DOMAIN result.patterns.by_quarter :
                LET g == result.patterns.by_quarter[i] IN
                /\ g.total_orders = CountRows(LAMBDA row : row.QUARTER.v = g.quarter)
                /\ IsPercentage(g.percentage_of_annual_orders, g.total_orders,
                                Len(AccountRows))
          /\ \A i \in DOMAIN result.patterns.by_month :
                LET g == result.patterns.by_month[i] IN
                /\ g.total_orders = CountRows(LAMBDA row : row.MONTH.v = g.month)
                /\ IsPercentage(g.percentage_of_annual_orders, g.total_orders,
                                Len(AccountRows))
    /\ AnalysisReturned("get_customer_seasonal_analysis", "peak_season") =>
          \A i \in DOMAIN result.seasonal_patterns :
              LET g == result.seasonal_patterns[i] IN
              /\ g.total_orders =
                     CountRows(LAMBDA row : get_season(row.MONTH.v) = g.season)
              /\ IsPercentage(g.percentage_of_annual_orders, g.total_orders,
                              Len(AccountRows))

\* percentages of an account with orders in several quarters (seasons), one of
\* them not a whole number of hundredths, in a dataset that holds orders of
\* another account
C15_Witness ==
    /\ Len(AccountRows) < Len(DatasetRows)
    /\ \/ /\ AnalysisReturned("get_customer_order_patterns", "patterns")
          /\ Len(result.patterns.by_quarter) >= 2
          /\ (10000 * result.patterns.by_quarter[1].total_orders) % Len(AccountRows) # 0
       \/ /\ AnalysisReturned("get_customer_seasonal_analysis", "peak_season")
          /\ Len(result.seasonal_patterns) >= 2
          /\ (10000 * result.seasonal_patterns[1].total_orders) % Len(AccountRows) # 0

\* C16. Ratio safety: every average an analysis reports for a group is a
\* number, never null: the average order value of a quarter in the order
\* patterns, also when every total price of the quarter is null, and the average
\* quantity per order of a family's year in the product trends.
C16_AveragesAreNumbers ==
    /\ AnalysisReturned("get_customer_order_patterns", "patterns") =>
          \A i \in DOMAIN result.patterns.by_quarter :
              result.patterns.by_quarter[i].avg_order_value.kind = "num"
    /\ AnalysisReturned("get_customer_product_trends", "trends") =>
          \A i \in DOMAIN result.trends.by_product_family :
              \A j \in DOMAIN result.trends.by_product_family[i].yearly_breakdown :
                  result.trends.by_product_family[i].yearly_breakdown[j]
                      .avg_quantity_per_order.kind = "num"

\* the order patterns of an account whose orders of one quarter all lack a price
C16_Witness ==
    /\ AnalysisReturned("get_customer_order_patterns", "patterns")
    /\ \E i \in DOMAIN result.patterns.by_quarter :
          LET g == result.patterns.by_quarter[i] IN
          /\ g.total_orders >= 1
          /\ CountRows(LAMBDA row : row.QUARTER.v = g.quarter
                                    /\ row.Total_Price.kind = "num") = 0

\* the sum of quantity over the account's rows that satisfy P
QuantityOfRows(P(_)) ==
    SumFn([i \in {j \in 1..Len(AccountRows) : P(AccountRows[j])} |->
              AccountRows[i].Quantity])

\* groups is a sequence of [key, orders, quantity], RowKey the grouping key of a
\* row: the keys differ, each group covers the rows of its key, and the groups
\* together cover the rows with a non-null key
Conserves(groups, RowKey(_)) ==
    /\ \A i, j \in DOMAIN groups : i # j => groups[i].key # groups[j].key
    /\ \A i \in DOMAIN groups :
          /\ groups[i].orders = CountRows(LAMBDA row : RowKey(row) = groups[i].key)
          /\ groups[i].quantity = QuantityOfRows(LAMBDA row : RowKey(row) = groups[i].key)
    /\ SumFn([i \in DOMAIN groups |-> groups[i].orders])
          = CountRows(LAMBDA row : ~IsNa(RowKey(row)))
    /\ SumFn([i \in DOMAIN groups |-> groups[i].quantity])
          = QuantityOfRows(LAMBDA row : ~IsNa(RowKey(row)))

\* a list of groups reduced to key, order count and quantity total
FamilyGroups(gs) ==
    [i \in DOMAIN gs |-> [key |-> gs[i].product_family, orders |-> gs[i].total_orders,
                          quantity |-> gs[i].total_quantity]]
ColorGroups(gs) ==
    [i \in DOMAIN gs |-> [key |-> gs[i].stone_color, orders |-> gs[i].total_orders,
                          quantity |-> gs[i].total_quantity]]
SegmentGroups(gs) ==
    [i \in DOMAIN gs |-> [key |-> gs[i].segment, orders |-> gs[i].total_orders,
                          quantity |-> gs[i].total_quantity]]
QuarterGroups(gs) ==
    [i \in DOMAIN gs |-> [key |-> Num(gs[i].quarter), orders |-> gs[i].total_orders,
                          quantity |-> gs[i].total_quantity]]
MonthGroups(gs) ==
    [i \in DOMAIN gs |-> [key |-> Num(gs[i].month), orders |-> gs[i].total_orders,
                          quantity |-> gs[i].total_quantity]]
YearGroups(gs) ==
    [i \in DOMAIN gs |-> [key |-> Num(gs[i].year), orders |-> gs[i].orders,
                          quantity |-> gs[i].quantity]]

\* C17. Aggregation conservation: in every grouping by year, product family,
\* stone color, segment, quarter or month that an analysis returns, the groups'
\* quantity totals add up to the quantity of the account's rows with a non-null
\* grouping key, the groups' order counts add up to the number of those rows,
\* and no row is counted in two groups.
C17_AggregationConservation ==
    /\ AnalysisReturned("get_customer_summary_stats", "yearly_breakdown") =>
          Conserves(YearGroups(result.yearly_breakdown), LAMBDA row : row.YEAR)
    /\ AnalysisReturned("get_customer_product_by_family", "total_families") =>
          Conserves(FamilyGroups(result.families), LAMBDA row : row.family)
    /\ AnalysisReturned("get_customer_product_by_color", "total_colors") =>
          Conserves(ColorGroups(result.colors), LAMBDA row : row.color)
    /\ AnalysisReturned("get_customer_product_by_segment", "total_segments") =>
          Conserves(SegmentGroups(result.segments), LAMBDA row : row.segment)
    /\ AnalysisReturned("get_customer_order_patterns", "patterns") =>
          /\ Conserves(QuarterGroups(result.patterns.by_quarter),
                       LAMBDA row : row.QUARTER)
          /\ Conserves(MonthGroups(result.patterns.by_month), LAMBDA row : row.MONTH)
    /\ AnalysisReturned("get_customer_product_trends", "trends") =>
          /\ Conserves(FamilyGroups(result.trends.by_product_family),
                       LAMBDA row : row.family)
          /\ Conserves(ColorGroups(result.trends.by_stone_color),
                       LAMBDA row : row.color)
          /\ Conserves(SegmentGroups(result.trends.by_segment),
                       LAMBDA row : row.segment)

\* families of an account: two families, one of them with several orders, and
\* an order without a family
C17_Witness ==
    /\ AnalysisReturned("get_customer_product_by_family", "total_families")
    /\ Len(result.families) >= 2
    /\ \E i \in DOMAIN result.families : result.families[i].total_orders >= 2
    /\ CountRows(LAMBDA row : IsNa(row.family)) >= 1

\* a row without one of its three dimensions, and the rows of a triple
LacksDimension(row) == IsNa(row.Length) \/ IsNa(row.Width) \/ IsNa(row.Height)

HasDimensions(row, dimensions) ==
    /\ row.Length = dimensions.length
    /\ row.Width = dimensions.width
    /\ row.Height = dimensions.height

AllNumbers(dimensions) ==
    /\ dimensions.length.kind = "num"
    /\ dimensions.width.kind = "num"
    /\ dimensions.height.kind = "num"

\* C18. Dimension-triple grouping: a dimension group of the product trends and
\* of the summary has three non-null dimensions and counts exactly the account's
\* rows with these three dimensions, so a row without a dimension is in no
\* dimension group; such a row is still counted in the family, color and segment
\* groups of the trends, in their yearly breakdowns, and in the yearly breakdown
\* of the summary.
C18_DimensionTriples ==
    /\ AnalysisReturned("get_customer_product_trends", "trends") =>
          /\ \A i \in DOMAIN result.trends.by_dimensions :
                LET g == result.trends.by_dimensions[i] IN
                /\ AllNumbers(g.dimensions)
                /\ g.total_orders =
                       CountRows(LAMBDA row : HasDimensions(row, g.dimensions))
          /\ \A k \in DOMAIN AccountRows :
                LET r == AccountRows[k] IN
                LacksDimension(r) =>
                  /\ ~IsNa(r.family) =>
                        \E i \in DOMAIN result.trends.by_product_family :
                            LET g == result.trends.by_product_family[i] IN
                            /\ g.product_family = r.family
                            /\ g.total_orders =
                                   CountRows(LAMBDA row : row.family = r.family)
                            /\ \E j \in DOMAIN g.yearly_breakdown :
                                  /\ g.yearly_breakdown[j].year = r.YEAR.v
                                  /\ g.yearly_breakdown[j].orders =
                                         CountRows(LAMBDA row : /\ row.family = r.family
                                                                /\ row.YEAR = r.YEAR)
                  /\ ~IsNa(r.color) =>
                        \E i \in DOMAIN result.trends.by_stone_color :
                            LET g == result.trends.by_stone_color[i] IN
                            /\ g.stone_color = r.color
                            /\ g.total_orders =
                                   CountRows(LAMBDA row : row.color = r.color)
                  /\ ~IsNa(r.segment) =>
                        \E i \in DOMAIN result.trends.by_segment :
                            LET g == result.trends.by_segment[i] IN
                            /\ g.segment = r.segment
                            /\ g.total_orders =
                                   CountRows(LAMBDA row : row.segment = r.segment)
    /\ AnalysisReturned("get_customer_summary_stats", "most_common_dimensions") =>
          /\ \A i \in DOMAIN result.most_common_dimensions :
                LET g == result.most_common_dimensions[i] IN
                /\ AllNumbers(g.dimensions)
                /\ g.order_count =
                       CountRows(LAMBDA row : HasDimensions(row, g.dimensions))
          /\ \A k \in DOMAIN AccountRows :
                LET r == AccountRows[k] IN
                LacksDimension(r) =>
                  \E j \in DOMAIN result.yearly_breakdown :
                      /\ result.yearly_breakdown[j].year = r.YEAR.v
                      /\ result.yearly_breakdown[j].orders =
                             CountRows(LAMBDA row : row.YEAR = r.YEAR)

\* trends with a dimension group, of an account that has an order without a
\* length but with a family, a color and a segment
C18_Witness ==
    /\ AnalysisReturned("get_customer_product_trends", "trends")
    /\ Len(result.trends.by_dimensions) >= 1
    /\ \E k \in DOMAIN AccountRows :
          /\ LacksDimension(AccountRows[k])
          /\ ~IsNa(AccountRows[k].family)
          /\ ~IsNa(AccountRows[k].color)
          /\ ~IsNa(AccountRows[k].segment)

\* list is a sequence of [key, value] cut to n entries, keys the keys of all the
\* groups and Value the ranking value of a key aggregated over all its rows:
\* the list holds min(n, number of groups) groups, each once and with its full
\* value, in descending order, and no group left out ranks above a listed one
IsTopN(list, n, keys, Value(_)) ==
    /\ Len(list) <= n
    /\ Len(list) = (IF Cardinality(keys) < n THEN Cardinality(keys) ELSE n)
    /\ \A i \in DOMAIN list : list[i].key \in keys /\ list[i].value = Value(list[i].key)
    /\ \A i, j \in DOMAIN list : i < j =>
          list[i].key # list[j].key /\ list[i].value >= list[j].value
    /\ \A k \in keys :
          (\A i \in DOMAIN list : list[i].key # k) =>
              \A i \in DOMAIN list : Value(k) <= list[i].value

\* the non-null keys of the account's rows that satisfy P
SkusOf(P(_)) ==
    {AccountRows[i].sku :
        i \in {j \in 1..Len(AccountRows) :
                  P(AccountRows[j]) /\ ~IsNa(AccountRows[j].sku)}}
DimensionsOfRows ==
    {[length |-> AccountRows[i].Length, width |-> AccountRows[i].Width,
      height |-> AccountRows[i].Height] :
        i \in {j \in 1..Len(AccountRows) : ~LacksDimension(AccountRows[j])}}
MonthsOfRows == {AccountRows[i].MONTH.v : i \in 1..Len(AccountRows)}
QuartersOfRows == {AccountRows[i].QUARTER.v : i \in 1..Len(AccountRows)}

\* a list of products reduced to key and ranking value
ProductsByTotal(ps) ==
    [i \in DOMAIN ps |-> [key |-> ps[i].product_sku, value |-> ps[i].total_quantity]]
ProductsByQuantity(ps) ==
    [i \in DOMAIN ps |-> [key |-> ps[i].product_sku, value |-> ps[i].quantity]]

\* C19. Top-N after full aggregation: each capped list (top 10 dimension groups
\* of the trends, top 5 products of a segment, top 10 products of a color, top 5
\* products by quantity and top 3 dimensions of the summary, top 3 products of a
\* season, top 3 months and top 2 quarters of the order patterns) has at most N
\* entries in descending order of the ranking value, each value aggregated over
\* all rows of its group, and no group left out ranks strictly above a listed
\* one.
C19_TopNAfterAggregation ==
    /\ AnalysisReturned("get_customer_product_trends", "trends") =>
          IsTopN([i \in DOMAIN result.trends.by_dimensions |->
                     [key |-> result.trends.by_dimensions[i].dimensions,
                      value |-> result.trends.by_dimensions[i].total_quantity]],
                 10, DimensionsOfRows,
                 LAMBDA k : QuantityOfRows(LAMBDA row : HasDimensions(row, k)))
    /\ AnalysisReturned("get_customer_product_by_segment", "total_segments") =>
          \A s \in DOMAIN result.segments :
              LET g == result.segments[s] IN
              IsTopN(ProductsByTotal(g.top_products), 5,
                     SkusOf(LAMBDA row : row.segment = g.segment),
                     LAMBDA k : QuantityOfRows(LAMBDA row : /\ row.segment = g.segment
                                                            /\ row.sku = k))
    /\ AnalysisReturned("get_customer_product_by_color", "total_colors") =>
          \A c \in DOMAIN result.colors :
              LET g == result.colors[c] IN
              IsTopN(ProductsByTotal(g.products), 10,
                     SkusOf(LAMBDA row : row.color = g.stone_color),
                     LAMBDA k : QuantityOfRows(LAMBDA row : /\ row.color = g.stone_color
                                                            /\ row.sku = k))
    /\ AnalysisReturned("get_customer_summary_stats", "top_products") =>
          /\ IsTopN(ProductsByQuantity(result.top_products.by_quantity), 5,
                    SkusOf(LAMBDA row : TRUE),
                    LAMBDA k : QuantityOfRows(LAMBDA row : row.sku = k))
          /\ IsTopN([i \in DOMAIN result.most_common_dimensions |->
                        [key |-> result.most_common_dimensions[i].dimensions,
                         value |-> result.most_common_dimensions[i].order_count]],
                    3, DimensionsOfRows,
                    LAMBDA k : CountRows(LAMBDA row : HasDimensions(row, k)))
    /\ AnalysisReturned("get_customer_seasonal_analysis", "peak_season") =>
          \A s \in DOMAIN result.seasonal_patterns :
              LET g == result.seasonal_patterns[s] IN
              IsTopN(ProductsByQuantity(g.top_products), 3,
                     SkusOf(LAMBDA row : get_season(row.MONTH.v) = g.season),
                     LAMBDA k : QuantityOfRows(LAMBDA row :
                                    /\ get_season(row.MONTH.v) = g.season
                                    /\ row.sku = k))
    /\ AnalysisReturned("get_customer_order_patterns", "patterns") =>
          /\ IsTopN([i \in DOMAIN result.summary.top_ordering_months |->
                        LET month == result.summary.top_ordering_months[i] IN
                        [key |-> month,
                         value |-> CountRows(LAMBDA row : row.MONTH.v = month)]],
                    3, MonthsOfRows,
                    LAMBDA k : CountRows(LAMBDA row : row.MONTH.v = k))
          /\ IsTopN([i \in DOMAIN result.summary.top_ordering_quarters |->
                        LET quarter == result.summary.top_ordering_quarters[i] IN
                        [key |-> quarter,
                         value |-> CountRows(LAMBDA row : row.QUARTER.v = quarter)]],
                    2, QuartersOfRows,
                    LAMBDA k : CountRows(LAMBDA row : row.QUARTER.v = k))

\* a summary whose two lists are cut: the account has more than five products
\* and more than three dimension triples
C19_Witness ==
    /\ AnalysisReturned("get_customer_summary_stats", "top_products")
    /\ Len(result.top_products.by_quantity) = 5
    /\ Cardinality(SkusOf(LAMBDA row : TRUE)) > 5
    /\ Len(result.most_common_dimensions) = 3
    /\ Cardinality(DimensionsOfRows) > 3

----------------------------------------------------------------------------
(* Claims about nulls in the output (checked under SpecAnalysis) *)

\* the row of the dataset an output entry was made from
RowOf(entry) ==
    DatasetRows[CHOOSE i \in 1..Len(DatasetRows) : DatasetRows[i].id = entry.id]

\* out is the output of the dataset value x: the number itself, and an
\* explicit null (None) for a null
IsExplicit(out, x) ==
    IF IsNa(x) THEN out.kind = "none" ELSE out.kind = "num" /\ out.v = x.v

\* the numeric fields of an entry with a dimensions object
EntryIsExplicit(entry) ==
    /\ {"dimensions", "total_price_usd"} \subseteq DOMAIN entry
    /\ {"length", "width", "height"} \subseteq DOMAIN entry.dimensions
    /\ IsExplicit(entry.dimensions.length, RowOf(entry).Length)
    /\ IsExplicit(entry.dimensions.width, RowOf(entry).Width)
    /\ IsExplicit(entry.dimensions.height, RowOf(entry).Height)
    /\ IsExplicit(entry.total_price_usd, RowOf(entry).Total_Price)

\* a call of get_customer_products that returned entries
ProductsReturned ==
    /\ pc = "done"
    /\ call.tool = "get_customer_products"
    /\ result.success
    /\ "products" \in DOMAIN result

\* the order entries of the history and the records of the two detail tools
\* carry every numeric field, a null as an explicit null
HistoryAndDetailsExplicit ==
    /\ HistoryReturned => \A p \in HistoryPlaces : EntryIsExplicit(HistoryEntry(p))
    /\ \A i \in DOMAIN ReturnedRows :
          LET record == ReturnedRows[i] IN
          /\ {"Length", "Width", "Height", "Total_Price"} \subseteq DOMAIN record
          /\ IsExplicit(record.Length, RowOf(record).Length)
          /\ IsExplicit(record.Width, RowOf(record).Width)
          /\ IsExplicit(record.Height, RowOf(record).Height)
          /\ IsExplicit(record.Total_Price, RowOf(record).Total_Price)

\* C20. Explicit nulls in output: in the product entries of
\* get_customer_products, the order entries of get_customer_purchase_history and
\* the records of the two detail tools, a numeric field that is null in the
\* dataset is present and is an explicit null, never left out and never another
\* value.
C20_ExplicitNulls ==
    /\ ProductsReturned => \A i \in DOMAIN result.products :
                               EntryIsExplicit(result.products[i])
    /\ HistoryAndDetailsExplicit

\* products of an account with an order that has no length or no total price
C20_Witness ==
    /\ ProductsReturned
    /\ \E i \in DOMAIN result.products :
          \/ IsNa(RowOf(result.products[i]).Length)
          \/ IsNa(RowOf(result.products[i]).Total_Price)

----------------------------------------------------------------------------
(* Claims about the pipeline as a function (checked under SpecRerun) *)

\* both runs of _get_processed_data are over
RanTwice == pc = "done" /\ call.tool = "_get_processed_data"

----------------------------------------------------------------------------
(* Claims about calls in progress at the same time (checked under           *)
(* SpecConcurrent)                                                          *)

\* what call i returns and requests when it runs alone on the response it got
Alone(i) ==
    LET inv == invocations[i] IN
    IF inv.tool = "get_customer_seasonal_analysis"
    THEN get_customer_seasonal_analysis(inv.account_code, inv.response, now)
    ELSE get_contract_details_by_account(inv.account_code, inv.response, now)

\* C22. Independence of concurrent calls: in every interleaving each call
\* builds its dataset from its own round-trip and returns what it would return
\* alone on the response it got; while it is in progress, its frames (df,
\* df_filtered and the Season column of the seasonal analysis) hold what the
\* call itself has put there.
C22_Independence ==
    \A i \in Invocations :
        LET inv == invocations[i] IN
        /\ inv.pc = "done" =>
              /\ inv.result = Alone(i).result
              /\ inv.requests = Alone(i).requests
        /\ inv.pc \in {"fetched", "filtered", "seasoned"} =>
              LET df == _get_processed_data(inv.response, now).rows IN
              /\ frames[i].df = df
              /\ inv.pc # "fetched" =>
                    frames[i].df_filtered = _filter_by_account(df, inv.account_code)
              /\ inv.pc = "seasoned" =>
                    frames[i].Season = SeasonColumn(frames[i].df_filtered)

\* two calls for different accounts that overlapped, each answered from a
\* response of its own, one of them a seasonal analysis with a peak season
C22_Witness ==
    /\ \A i \in Invocations :
          /\ invocations[i].pc = "done"
          /\ invocations[i].overlapped
          /\ invocations[i].result.success
    /\ invocations[1].account_code # invocations[2].account_code
    /\ invocations[1].response # invocations[2].response
    /\ invocations[1].tool = "get_customer_seasonal_analysis"
    /\ "peak_season" \in DOMAIN invocations[1].result
    /\ "account_code" \in DOMAIN invocations[2].result

----------------------------------------------------------------------------
(* Claims about single entry points (checked under SpecAnalysis and Spec) *)

\* the year filter of get_customer_products for the year arguments in years:
\* with a year, every product is of that year and count is the number of the
\* account's rows of that year; without, all rows of the account are returned;
\* total_quantity is the sum of quantity over the returned products
YearFilterHolds(years) ==
    (ProductsReturned /\ call.year \in years) =>
        /\ result.count = Len(result.products)
        /\ call.year.kind = "num" =>
              /\ \A i \in DOMAIN result.products :
                    result.products[i].year = Num(call.year.v)
              /\ result.count = CountRows(LAMBDA row : row.YEAR.v = call.year.v)
        /\ call.year.kind = "none" =>
              /\ result.count = Len(AccountRows)
              /\ \A k \in DOMAIN AccountRows :
                    \E i \in DOMAIN result.products :
                        result.products[i].id = AccountRows[k].id
        /\ result.products # <<>> =>
              result.summary.total_quantity =
                  SumFn([i \in DOMAIN result.products |-> result.products[i].quantity])

\* C23. Year filter of get_customer_products: whenever a year is supplied (any
\* non-null integer), every product of the result has that year and count is
\* the number of the account's rows of that year; when no year is supplied, all
\* of the account's rows are returned; summary.total_quantity is the sum of
\* quantity over the returned products.
C23_YearFilter == YearFilterHolds(YearArgs)

\* the same for no year and for every year other than 0
C23_YearFilterExceptZero == YearFilterHolds(YearArgs \ {Year(0)})

\* products asked for the year 0 of an account that has orders
C23_Witness ==
    /\ ProductsReturned
    /\ call.year = Year(0)
    /\ Len(AccountRows) >= 1

\* the months of a season
MonthsOfSeason ==
    [season \in {"Winter", "Spring", "Summer", "Fall"} |->
        CASE season = "Winter" -> {12, 1, 2}
          [] season = "Spring" -> {3, 4, 5}
          [] season = "Summer" -> {6, 7, 8}
          [] season = "Fall" -> {9, 10, 11}]

\* a call of get_customer_seasonal_analysis that found rows of the account
SeasonsReturned == AnalysisReturned("get_customer_seasonal_analysis", "peak_season")

\* C24. Season partition: get_season follows the table 12,1,2 -> Winter, 3,4,5
\* -> Spring, 6,7,8 -> Summer, 9,10,11 -> Fall; the seasonal analysis lists each
\* season once, with the number of the account's rows of its months, lists no
\* season without rows, the seasons' total_orders add up to the account's row
\* count, and peak_season is a listed season with a maximal total_orders.
C24_SeasonPartition ==
    /\ \A month \in 1..12 : month \in MonthsOfSeason[get_season(month)]
    /\ SeasonsReturned =>
          LET seasons == result.seasonal_patterns IN
          /\ \A i \in DOMAIN seasons :
                /\ seasons[i].season \in DOMAIN MonthsOfSeason
                /\ seasons[i].total_orders >= 1
                /\ seasons[i].total_orders =
                       CountRows(LAMBDA row :
                           row.MONTH.v \in MonthsOfSeason[seasons[i].season])
                /\ \A j \in DOMAIN seasons :
                       i # j => seasons[i].season # seasons[j].season
          /\ SumFn([i \in DOMAIN seasons |-> seasons[i].total_orders]) = Len(AccountRows)
          /\ \E i \in DOMAIN seasons :
                /\ seasons[i].season = result.peak_season
                /\ \A j \in DOMAIN seasons :
                       seasons[j].total_orders <= seasons[i].total_orders

\* an account with orders in three seasons, unevenly spread, and none in the
\* fourth
C24_Witness ==
    /\ SeasonsReturned
    /\ Len(result.seasonal_patterns) = 3
    /\ \E i, j \in DOMAIN result.seasonal_patterns :
          result.seasonal_patterns[i].total_orders
              < result.seasonal_patterns[j].total_orders

----------------------------------------------------------------------------
(* Claims about the customers list (checked under SpecRoundTrip) *)

\* a call of get_all_customers_list that returned a list
CustomersReturned ==
    /\ pc = "done"
    /\ call.tool = "get_all_customers_list"
    /\ result.success

\* get_contract_details_by_account(c) on the same Record Source finds rows,
\* all of account c up to case and surrounding whitespace
LookupSucceeds(c) ==
    LET details == get_contract_details_by_account(Str(c), source, now).result IN
    /\ details.success
    /\ details.count >= 1
    /\ Len(details.data) = details.count
    /\ \A i \in DOMAIN details.data : AccountMatches(details.data[i], Str(c))

\* the list is sorted ascending without duplicates and count is its length
CustomersWellFormed ==
    /\ result.count = Len(result.customers)
    /\ \A i, j \in DOMAIN result.customers :
          i < j => StrLess(result.customers[i], result.customers[j])

\* C25. Customer list round-trip: every account code of the list returned by
\* get_all_customers_list can be looked up with get_contract_details_by_account
\* on the same data, with success, count >= 1 and only records of that account
\* up to case and surrounding whitespace; the list is sorted ascending, has no
\* duplicates, and count is its length.
C25_CustomerRoundTrip ==
    CustomersReturned =>
        /\ CustomersWellFormed
        /\ \A i \in DOMAIN result.customers : LookupSucceeds(result.customers[i])

\* the same for the account codes of the list that are not blank
C25_RoundTripOfNonBlankCodes ==
    CustomersReturned =>
        /\ CustomersWellFormed
        /\ \A i \in DOMAIN result.customers :
              ~AccountBlank(Str(result.customers[i])) =>
                  LookupSucceeds(result.customers[i])

\* a customers list that holds a blank account code next to another code
C25_Witness ==
    /\ CustomersReturned
    /\ Len(result.customers) >= 2
    /\ \E i \in DOMAIN result.customers : AccountBlank(Str(result.customers[i]))

====
